---- MODULE Spec2Model ----
(***************************************************************************)
(* A model of the bioformats readers: the scoped file handling of          *)
(* abstract.py, the SAM reader (sam_reader.py), the VCF reader             *)
(* (biodatareader/vcf_reader.py) and the FASTQ reader (fastq_reader.py).   *)
(*                                                                         *)
(* A text is a sequence of one-character strings; a file is a sequence of  *)
(* lines, each ending with the newline character, and the cursor of an     *)
(* open file object is the number of lines already consumed.  A generator  *)
(* object (the value of read() or filter_by_region()) is a record whose    *)
(* pc says how far its body has run; one ...Next step is one next() call.  *)
(***************************************************************************)
EXTENDS Integers, Sequences, FiniteSets, TLC

\* ------------------------------------------------------------------ bounds
\* Longest SAM file, in lines.
MaxLines == 2
\* Longest VCF file, in lines.
MaxVcfLines == 3
\* Longest FASTQ file, in complete four-line groups.
MaxGroups == 2
\* Generator objects alive at the same time.
MaxGens == 1
\* Times one reader instance opens its file.
MaxOpens == 2

\* -------------------------------------------------------------- characters
Tab == "\t"
NL == "\n"
Space == " "
Whitespace == {Space, Tab, NL}
Digits == <<"0", "1", "2", "3", "4", "5", "6", "7", "8", "9">>
DigitSet == {Digits[i] : i \in 1..10}
DigitVal(c) == (CHOOSE i \in 1..10 : Digits[i] = c) - 1

\* str.startswith(prefix)
StartsWith(s, prefix) ==
    /\ Len(s) >= Len(prefix)
    /\ SubSeq(s, 1, Len(prefix)) = prefix

RECURSIVE LStrip(_, _)
\* str.lstrip(chars)
LStrip(s, chars) ==
    IF s # <<>> /\ Head(s) \in chars THEN LStrip(Tail(s), chars) ELSE s

RECURSIVE RStrip(_, _)
\* str.rstrip(chars)
RStrip(s, chars) ==
    IF s # <<>> /\ s[Len(s)] \in chars
    THEN RStrip(SubSeq(s, 1, Len(s) - 1), chars)
    ELSE s

\* str.strip(): leading and trailing whitespace removed
Strip(s) == RStrip(LStrip(s, Whitespace), Whitespace)

RECURSIVE SplitAcc(_, _, _, _)
SplitAcc(s, sep, cur, acc) ==
    IF s = <<>> THEN Append(acc, cur)
    ELSE IF Head(s) = sep THEN SplitAcc(Tail(s), sep, <<>>, Append(acc, cur))
    ELSE SplitAcc(Tail(s), sep, Append(cur, Head(s)), acc)

\* str.split(sep) for a one-character separator: the empty text gives one
\* empty field
Split(s, sep) == SplitAcc(s, sep, <<>>, <<>>)

RECURSIVE Join(_, _)
\* sep.join(parts)
Join(parts, sep) ==
    IF parts = <<>> THEN <<>>
    ELSE IF Len(parts) = 1 THEN parts[1]
    ELSE parts[1] \o <<sep>> \o Join(Tail(parts), sep)

\* The index of the first occurrence of character c in s, 0 when absent.
IndexOf(s, c) ==
    IF \E i \in 1..Len(s) : s[i] = c
    THEN CHOOSE i \in 1..Len(s) : s[i] = c /\ \A j \in 1..(i - 1) : s[j] # c
    ELSE 0

\* str.upper() on the letters that occur in the modelled inputs
UpperChar(c) ==
    CASE c = "a" -> "A" [] c = "c" -> "C" [] c = "g" -> "G" [] c = "t" -> "T"
      [] c = "n" -> "N" [] c = "x" -> "X" [] OTHER -> c
Upper(s) == [i \in 1..Len(s) |-> UpperChar(s[i])]

\* ord(c), for the characters of the modelled inputs
Ord(c) ==
    CASE c = Tab -> 9
      [] c = NL -> 10
      [] c = Space -> 32
      [] c = "!" -> 33
      [] c = "#" -> 35
      [] c = "*" -> 42
      [] c = "+" -> 43
      [] c = "-" -> 45
      [] c = "." -> 46
      [] c = "0" -> 48
      [] c = "1" -> 49
      [] c = "2" -> 50
      [] c = "3" -> 51
      [] c = "4" -> 52
      [] c = "5" -> 53
      [] c = "6" -> 54
      [] c = "7" -> 55
      [] c = "8" -> 56
      [] c = "9" -> 57
      [] c = ":" -> 58
      [] c = ";" -> 59
      [] c = "=" -> 61
      [] c = "@" -> 64
      [] c = "A" -> 65
      [] c = "C" -> 67
      [] c = "G" -> 71
      [] c = "H" -> 72
      [] c = "I" -> 73
      [] c = "M" -> 77
      [] c = "N" -> 78
      [] c = "O" -> 79
      [] c = "P" -> 80
      [] c = "Q" -> 81
      [] c = "R" -> 82
      [] c = "S" -> 83
      [] c = "T" -> 84
      [] c = "U" -> 85
      [] c = "X" -> 88
      [] c = "_" -> 95
      [] c = "a" -> 97
      [] c = "b" -> 98
      [] c = "c" -> 99
      [] c = "d" -> 100
      [] c = "e" -> 101
      [] c = "f" -> 102
      [] c = "g" -> 103
      [] c = "k" -> 107
      [] c = "n" -> 110
      [] c = "q" -> 113
      [] c = "r" -> 114
      [] c = "t" -> 116
      [] c = "u" -> 117
      [] c = "v" -> 118
      [] c = "x" -> 120

RECURSIVE StrLess(_, _)
\* a < b on str: lexicographic by character code
StrLess(a, b) ==
    IF b = <<>> THEN FALSE
    ELSE IF a = <<>> THEN TRUE
    ELSE IF Head(a) # Head(b) THEN Ord(Head(a)) < Ord(Head(b))
    ELSE StrLess(Tail(a), Tail(b))

RECURSIVE DigitsValue(_, _)
DigitsValue(s, acc) ==
    IF s = <<>> THEN acc ELSE DigitsValue(Tail(s), acc * 10 + DigitVal(Head(s)))

\* The text int() sees once whitespace and one sign are removed.
IntBody(s) ==
    LET t == Strip(s)
    IN IF t # <<>> /\ Head(t) \in {"+", "-"} THEN Tail(t) ELSE t

\* int(s) succeeds: optional whitespace, optional sign, one or more digits
IsInt(s) ==
    LET b == IntBody(s)
    IN b # <<>> /\ \A i \in 1..Len(b) : b[i] \in DigitSet

\* int(s), for a text on which it succeeds
IntOf(s) ==
    LET t == Strip(s)
        v == DigitsValue(IntBody(s), 0)
    IN IF t # <<>> /\ Head(t) = "-" THEN 0 - v ELSE v

RECURSIVE NatStr(_)
NatStr(n) ==
    IF n < 10 THEN <<Digits[n + 1]>>
    ELSE Append(NatStr(n \div 10), Digits[(n % 10) + 1])

\* str(n) for an integer n
IntStr(n) == IF n < 0 THEN <<"-">> \o NatStr(0 - n) ELSE NatStr(n)

\* ------------------------------------------------------------- SAM parsing
\* An alignment line has at least this many tab-separated fields.
MinSamFields == 11
CigarOps == {"M", "I", "D", "N", "S", "H", "P", "=", "X"}
RefOpsWithInsert == {"M", "D", "N", "=", "X", "I"}
\* if op in ("M", "D", "N", "=", "X")
RefOps == {"M", "D", "N", "=", "X"}

RECURSIVE CigarScan(_, _, _, _)
\* re.findall(r"(\d+)([MIDNSHP=X])", cigar), summed over the operations that
\* consume the reference: num is the value of the digit run being read.
CigarScan(s, num, hasNum, acc) ==
    IF s = <<>> THEN acc
    ELSE IF Head(s) \in DigitSet
    THEN CigarScan(Tail(s), num * 10 + DigitVal(Head(s)), TRUE, acc)
    ELSE IF hasNum /\ Head(s) \in CigarOps
    THEN CigarScan(Tail(s), 0, FALSE,
                   acc + (IF Head(s) \in RefOps THEN num ELSE 0))
    ELSE CigarScan(Tail(s), 0, FALSE, acc)

calc_aligned_length(cigar) ==
    IF cigar = <<>> \/ cigar = <<"*">> THEN 0 ELSE CigarScan(cigar, 0, FALSE, 0)

IsSamHeaderLine(line) == StartsWith(line, <<"@">>)

\* fields = line.strip().split("\t")
SamFields(line) == Split(Strip(line), Tab)

\* A faulty read() that does not skip the lines whose RNAME is "*".
SamYieldsUnmapped(line) ==
    LET fields == SamFields(line)
    IN /\ ~IsSamHeaderLine(line)
       /\ ~(Len(fields) < MinSamFields)
       /\ IsInt(fields[4])
       /\ (fields[5] # <<"*">> => IsInt(fields[5]))
       /\ IsInt(fields[2])

\* read() yields a record for this line: it passes every `continue`.
SamYields(line) ==
    LET fields == SamFields(line)
    IN /\ ~IsSamHeaderLine(line)
       /\ ~(Len(fields) < MinSamFields \/ fields[3] = <<"*">>)
       /\ IsInt(fields[4])
       /\ (fields[5] # <<"*">> => IsInt(fields[5]))
       /\ IsInt(fields[2])

\* A faulty record whose end is one past the last aligned position.
SamRecordEndExclusive(line) ==
    LET fields == SamFields(line)
        pos_int == IntOf(fields[4])
        aligned_len == calc_aligned_length(fields[6])
    IN [id |-> fields[1], chrom |-> fields[3], start |-> pos_int,
        end |-> pos_int + aligned_len,
        cigar |-> fields[6],
        mapq |-> IF fields[5] # <<"*">> THEN IntOf(fields[5]) ELSE 0,
        flag |-> IntOf(fields[2])]

\* The AlignmentRecord read() builds from a line it yields.
SamRecord(line) ==
    LET fields == SamFields(line)
        pos_int == IntOf(fields[4])
        aligned_len == calc_aligned_length(fields[6])
    IN [id |-> fields[1], chrom |-> fields[3], start |-> pos_int,
        end |-> IF aligned_len > 0 THEN pos_int + aligned_len - 1 ELSE pos_int,
        cigar |-> fields[6],
        mapq |-> IF fields[5] # <<"*">> THEN IntOf(fields[5]) ELSE 0,
        flag |-> IntOf(fields[2])]

\* _parse_header_line: the entry is appended to the list of its tag.
parse_header_line(h, line) ==
    LET parts == Split(Strip(line), Tab)
        tag == parts[1]
        entry == Join(Tail(parts), Tab)
    IN IF tag \in DOMAIN h
       THEN [h EXCEPT ![tag] = Append(@, entry)]
       ELSE [t \in DOMAIN h \cup {tag} |-> IF t = tag THEN <<entry>> ELSE h[t]]

\* The number of leading lines that start with "@".
RECURSIVE HeaderBlockLen(_)
HeaderBlockLen(ls) ==
    IF ls # <<>> /\ IsSamHeaderLine(Head(ls)) THEN 1 + HeaderBlockLen(Tail(ls)) ELSE 0

RECURSIVE SamHeaderFold(_, _)
SamHeaderFold(h, ls) ==
    IF ls = <<>> \/ ~IsSamHeaderLine(Head(ls)) THEN h
    ELSE SamHeaderFold(parse_header_line(h, Head(ls)), Tail(ls))

\* ---------------------------------------------------------------- SAM inputs
\* A line of a SAM or VCF file from its tab-separated fields.
Line(fields) == Append(Join(fields, Tab), NL)

SamTail == << <<"*">>, <<"0">>, <<"0">>, <<"A">>, <<"I">> >>
SamPool ==
    { Line(<< <<"@", "S", "Q">>, <<"a">> >>),
      Line(<< <<"@", "S", "Q">>, <<"b">> >>),
      \* mapped, chrom c, POS 1, CIGAR 2M
      Line(<< <<"q">>, <<"0">>, <<"c">>, <<"1">>, <<"9">>, <<"2", "M">> >> \o SamTail),
      \* mapped, chrom d, POS 3, MAPQ *, CIGAR 1I
      Line(<< <<"r">>, <<"1", "6">>, <<"d">>, <<"3">>, <<"*">>, <<"1", "I">> >> \o SamTail),
      \* unmapped: RNAME *
      Line(<< <<"u">>, <<"4">>, <<"*">>, <<"0">>, <<"0">>, <<"*">> >> \o SamTail),
      \* POS is not an integer
      Line(<< <<"q">>, <<"0">>, <<"c">>, <<"x">>, <<"9">>, <<"2", "M">> >> \o SamTail),
      \* FLAG is not an integer
      Line(<< <<"q">>, <<"f">>, <<"c">>, <<"1">>, <<"9">>, <<"2", "M">> >> \o SamTail),
      \* ten fields
      Line(<< <<"q">>, <<"0">>, <<"c">>, <<"1">>, <<"9">>, <<"2", "M">>,
              <<"*">>, <<"0">>, <<"0">>, <<"A">> >>),
      \* eleven fields, SEQ and QUAL empty
      Line(<< <<"q">>, <<"0">>, <<"c">>, <<"1">>, <<"9">>, <<"2", "M">>,
              <<"*">>, <<"0">>, <<"0">>, <<>>, <<>> >>) }

\* Every file of at most n lines over a pool of lines.
FilesOver(pool, n) == UNION {[1..k -> pool] : k \in 0..n}

\* ------------------------------------------------------------- VCF parsing
\* A variant line has at least this many tab-separated fields.
MinVcfFields == 5
TrueText == <<"T", "r", "u", "e">>
ChromMarker == <<"#", "C", "H", "R", "O", "M">>

\* A faulty store that keeps the first value of a key.
DictPutIfAbsent(d, k, v) == [x \in DOMAIN d \cup {k} |-> IF x \in DOMAIN d THEN d[x] ELSE v]

\* d[k] = v on a dict modelled as a function
DictPut(d, k, v) == [x \in DOMAIN d \cup {k} |-> IF x = k THEN v ELSE d[x]]

RECURSIVE InfoFold(_, _)
InfoFold(d, toks) ==
    IF toks = <<>> THEN d
    ELSE LET kv == Head(toks)
             eq == IndexOf(kv, "=")
         IN IF kv = <<>> THEN InfoFold(d, Tail(toks))
            ELSE IF eq > 0
            THEN InfoFold(DictPut(d, SubSeq(kv, 1, eq - 1),
                                  SubSeq(kv, eq + 1, Len(kv))), Tail(toks))
            ELSE InfoFold(DictPut(d, kv, TrueText), Tail(toks))

parse_info(info_str) ==
    IF info_str = <<>> \/ info_str = <<".">> THEN <<>>
    ELSE InfoFold(<<>>, Split(info_str, ";"))

\* parts = line.strip().split("\t")
VcfParts(line) == Split(Strip(line), Tab)

\* read() yields a record for this line
VcfYields(line) ==
    LET parts == VcfParts(line)
    IN /\ ~StartsWith(line, <<"#">>)
       /\ ~(Len(parts) < MinVcfFields)
       /\ IsInt(parts[2])

\* A faulty read() that takes REF from the ID column.
VcfRecordRefFromId(line) ==
    LET parts == VcfParts(line)
        pos == IntOf(parts[2])
    IN [id |-> parts[1] \o <<":">> \o IntStr(pos),
        chrom |-> parts[1], pos |-> pos, ref |-> parts[3], alt |-> parts[5],
        filter |-> IF Len(parts) > 6 THEN parts[7] ELSE <<".">>,
        info |-> parse_info(IF Len(parts) > 7 THEN parts[8] ELSE <<>>)]

\* The VariantRecord read() builds from a line it yields.
VcfRecord(line) ==
    LET parts == VcfParts(line)
        pos == IntOf(parts[2])
    IN [id |-> parts[1] \o <<":">> \o IntStr(pos),
        chrom |-> parts[1], pos |-> pos, ref |-> parts[4], alt |-> parts[5],
        filter |-> IF Len(parts) > 6 THEN parts[7] ELSE <<".">>,
        info |-> parse_info(IF Len(parts) > 7 THEN parts[8] ELSE <<>>)]

RECURSIVE VcfHeaderScan(_, _, _)
\* The loop of _parse_header over the lines ls: found says whether the
\* "#CHROM" line was met (the for loop left by break).
VcfHeaderScan(hl, ch, ls) ==
    IF ls = <<>> THEN [found |-> FALSE, header_lines |-> hl, column_header |-> ch]
    ELSE IF StartsWith(Head(ls), <<"#", "#">>)
    THEN VcfHeaderScan(Append(hl, Strip(Head(ls))), ch, Tail(ls))
    ELSE IF StartsWith(Head(ls), ChromMarker)
    THEN [found |-> TRUE, header_lines |-> hl,
          column_header |-> Split(LStrip(Strip(Head(ls)), {"#"}), Tab)]
    ELSE VcfHeaderScan(hl, ch, Tail(ls))

\* ---------------------------------------------------------------- VCF inputs
VcfMetaLine == Line(<< <<"#", "#", "a", "=", "1">> >>)
VcfChromLine == Line(<< ChromMarker, <<"P", "O", "S">> >>)
VcfPool ==
    { \* eight columns: FILTER p, INFO k=v;f
      Line(<< <<"c">>, <<"1">>, <<".">>, <<"A">>, <<"T">>, <<".">>, <<"p">>,
              <<"k", "=", "v", ";", "f">> >>),
      \* five columns, POS written 02
      Line(<< <<"d">>, <<"0", "2">>, <<".">>, <<"G">>, <<"C">> >>),
      \* POS is not an integer
      Line(<< <<"c">>, <<"x">>, <<".">>, <<"A">>, <<"T">> >>),
      \* five columns, ALT empty
      Line(<< <<"c">>, <<"1">>, <<".">>, <<"A">>, <<>> >>),
      \* a blank line
      <<NL>> }

\* Every VCF file of at most n lines: meta lines, then the column header (or
\* none, a malformed file), then variant lines.
VcfFiles(n) ==
    { f \in { meta \o chrom \o data :
                meta \in {<<>>, <<VcfMetaLine>>},
                chrom \in {<<>>, <<VcfChromLine>>},
                data \in FilesOver(VcfPool, n) } :
        Len(f) <= n }

\* ----------------------------------------------------- generic line scans
LineYields(f, line) == IF f = "SAM" THEN SamYields(line) ELSE VcfYields(line)
LineRecord(f, line) == IF f = "SAM" THEN SamRecord(line) ELSE VcfRecord(line)

\* A faulty scan that skips the line at the cursor.
NextYieldSkipping(f, ls, p) ==
    IF \E i \in (p + 2)..Len(ls) : LineYields(f, ls[i])
    THEN CHOOSE i \in (p + 2)..Len(ls) :
            LineYields(f, ls[i]) /\ \A j \in (p + 2)..(i - 1) : ~LineYields(f, ls[j])
    ELSE 0

\* The first line after cursor p (the count of consumed lines) that read()
\* yields a record for, as a 1-based index; 0 when the scan reaches the end.
NextYield(f, ls, p) ==
    IF \E i \in (p + 1)..Len(ls) : LineYields(f, ls[i])
    THEN CHOOSE i \in (p + 1)..Len(ls) :
            LineYields(f, ls[i]) /\ \A j \in (p + 1)..(i - 1) : ~LineYields(f, ls[j])
    ELSE 0

RECURSIVE ScanFrom(_, _, _)
\* The records read() yields for the lines after cursor p, in order.
ScanFrom(f, ls, p) ==
    IF p >= Len(ls) THEN <<>>
    ELSE (IF LineYields(f, ls[p + 1]) THEN <<LineRecord(f, ls[p + 1])>> ELSE <<>>)
         \o ScanFrom(f, ls, p + 1)

\* -------------------------------------------------------------------- state
VARIABLES
    fmt,            \* the class called: "SAM", "VCF", "FASTQ", "FASTA", or "CIGAR"
                    \* and "INFO" for the static methods _calc_aligned_length and
                    \* _parse_info called alone
    openable,       \* open(self.filepath) succeeds
    lines,          \* the content of the file, line by line
    file,           \* self.file: "none" (None), "open", or "closed" (a closed file object)
    epoch,          \* how many file objects this reader has opened; the newest is self.file
    pos,            \* the cursor of the open file object: lines consumed so far
    header_parsed,  \* self._header_parsed
    header,         \* SamReader.header: tag -> list of entries
    header_lines,   \* VcfReader.header_lines
    column_header,  \* VcfReader.column_header
    gens,           \* the generator objects the caller holds
    err,            \* the exception the last call raised, NoErr when it returned
    ret,            \* the value the last call returned
    call,           \* the method the caller invoked last
    seq_count,      \* FastaReader._seq_count
    total_length,   \* FastaReader._total_length
    tally           \* what the read() iterations of a FASTA reader have handed to
                    \* their consumers: records and bases delivered, and those of
                    \* them delivered last by an iteration that was then dropped

vars == <<fmt, openable, lines, file, epoch, pos, header_parsed, header,
          header_lines, column_header, gens, err, ret, call, seq_count, total_length,
          tally>>
inputVars == <<fmt, openable, lines>>
samVars == <<header>>
vcfVars == <<header_lines, column_header>>
fastaVars == <<seq_count, total_length, tally>>

\* ------------------------------------------------------------------- errors
Err(type, what, text) ==
    [type |-> type, what |-> what, text |-> text, path |-> FALSE, cause |-> "none"]
NoErr == Err("none", "none", <<>>)
\* self.file is None and an attribute of it is used
AttributeError == Err("AttributeError", "NoneType has no attribute", <<>>)
\* a closed file object is read or repositioned
ClosedFileError == Err("ValueError", "I/O operation on closed file", <<>>)
FileNotFoundError == Err("FileNotFoundError", "no such file", <<>>)
\* The error of using self.file when it is not an open file.
FileUseError(f) == IF f = "none" THEN AttributeError ELSE ClosedFileError
\* GenomicDataReader.__enter__: RuntimeError(f"... {self.filepath}: {e}")
WrapEnterError(e) ==
    [type |-> "RuntimeError", what |-> e.what, text |-> <<>>, path |-> TRUE,
     cause |-> e.type]
None == "None"

\* --------------------------------------------------------------- generators
\* kind: "free" (no object in this slot), "read" or "filter";
\* pc: "new" (body not started), "suspended" (at a yield), "done" (returned),
\*     "raised"; fobj: the file object `for line in self.file` iterates;
\* out: the records yielded so far; chrom, lo, hi: filter_by_region's
\* arguments; start: the cursor of the file when the generator was first
\* advanced; alone: no other call used the file between two of its steps;
\* seq_id, owed, at_end: the locals of a suspended FastaReader.read(), see
\* FastaReadNext; opened: the first step of this read() opened the file.
FreeGen ==
    [kind |-> "free", pc |-> "none", fobj |-> 0, out |-> <<>>, chrom |-> <<>>,
     lo |-> 0, hi |-> 0, start |-> -1, alone |-> TRUE,
     seq_id |-> <<>>, owed |-> 0, at_end |-> FALSE, opened |-> FALSE]
NewGen(kind, chrom, lo, hi) ==
    [FreeGen EXCEPT !.kind = kind, !.pc = "new", !.chrom = chrom, !.lo = lo, !.hi = hi]
GenIds == 1..MaxGens
\* A generator that can be advanced.  Under interleaved calls a generator can
\* yield the same line again and again; the model follows it until it has
\* yielded one record more than the file has lines.
Live(g) == gens[g].pc \in {"new", "suspended"} /\ Len(gens[g].out) <= Len(lines)
FirstFree(g) == gens[g].kind = "free" /\ \A h \in 1..(g - 1) : gens[h].kind # "free"

\* Another call used the file: every other suspended generator is no longer alone.
Touch(gs, g) ==
    [i \in DOMAIN gs |->
        IF i # g /\ gs[i].pc = "suspended" THEN [gs[i] EXCEPT !.alone = FALSE] ELSE gs[i]]

\* The query regions the callers ask for: chromosome, start, end.
Regions == { <<<<"c">>, 1, 1>>, <<<<"c">>, 3, 4>>, <<<<"d">>, 1, 3>>, <<<<"c">>, 2, 1>> }

\* ----------------------------------------------------------------- initially
\* Reader.__init__, GenomicDataReader.__init__ and the subclass constructors
InitReader ==
    /\ call = "__init__"
    /\ seq_count = 0
    /\ total_length = 0
    /\ tally = [records |-> 0, bases |-> 0, lost_records |-> 0, lost_bases |-> 0]
    /\ file = "none"
    /\ epoch = 0
    /\ pos = 0
    /\ header_parsed = FALSE
    /\ header = <<>>
    /\ header_lines = <<>>
    /\ column_header = <<>>
    /\ gens = [g \in GenIds |-> FreeGen]
    /\ err = NoErr
    /\ ret = None

InitFile(pool, n) ==
    \/ openable = TRUE /\ lines \in FilesOver(pool, n)
    \/ openable = FALSE /\ lines = <<>>

InitSam == fmt = "SAM" /\ InitFile(SamPool, MaxLines) /\ InitReader

\* --------------------------------------------------- calls on generators
\* reader.read(): a generator object is made, its body does not run yet
NewRead ==
    /\ call' = "read"
    /\ \E g \in GenIds :
           /\ FirstFree(g)
           /\ gens' = [gens EXCEPT ![g] = NewGen("read", <<>>, 0, 0)]
           /\ err' = NoErr
           /\ ret' = None
           /\ UNCHANGED <<inputVars, fastaVars, file, epoch, pos, header_parsed, samVars, vcfVars>>

\* reader.filter_by_region(chrom, start, end): likewise a generator object
NewFilter ==
    /\ call' = "filter_by_region"
    /\ \E g \in GenIds, r \in Regions :
           /\ fmt \in {"SAM", "VCF"}
           /\ FirstFree(g)
           /\ gens' = [gens EXCEPT ![g] = NewGen("filter", r[1], r[2], r[3])]
           /\ err' = NoErr
           /\ ret' = None
           /\ UNCHANGED <<inputVars, fastaVars, file, epoch, pos, header_parsed, samVars, vcfVars>>

\* The caller drops a generator object (abandons the iteration): a suspended
\* body is closed at its yield and the statements after it never run.
Discard ==
    /\ call' = "del"
    /\ \E g \in GenIds :
           /\ gens[g].kind # "free"
           /\ gens' = [gens EXCEPT ![g] = FreeGen]
           /\ tally' = IF fmt = "FASTA" /\ gens[g].pc = "suspended"
                        THEN [tally EXCEPT !.lost_records = @ + 1,
                                           !.lost_bases = @ + gens[g].owed]
                        ELSE tally
           /\ UNCHANGED <<inputVars, seq_count, total_length, file, epoch, pos,
                          header_parsed, samVars, vcfVars, err, ret>>

\* ------------------------------------------------------- scoped file access
\* Reader.close() as GenomicDataReader.close() calls it: the handle is
\* cleared only when it is an open file.
BaseClose(f) == IF f = "open" THEN "none" ELSE f

\* A faulty __enter__ whose except branch leaves the file open.
FileLeftOpenAfterFailedEnter(f) == f

\* The except branch of GenomicDataReader.__enter__: an open file is closed,
\* the handle is kept.
FileAfterFailedEnter(f) == IF f = "open" THEN "closed" ELSE f

\* GenomicDataReader.close(), which __exit__ calls
GenomicClose ==
    /\ file' = BaseClose(file)
    /\ pos' = 0
    /\ header_parsed' = FALSE
    /\ gens' = Touch(gens, 0)
    /\ err' = NoErr
    /\ ret' = None
    /\ UNCHANGED <<inputVars, fastaVars, epoch, samVars, vcfVars>>

\* -------------------------------------------------------------- SAM reader
\* SamReader._parse_header on an open file: the header block is appended to
\* the mapping and the cursor ends at the start.
SamParseHeader(h, ls) == SamHeaderFold(h, ls)

\* with SamReader(path) as reader: GenomicDataReader.__enter__
SamEnter ==
    /\ call' = "__enter__"
    /\ fmt = "SAM"
    /\ file # "open"
    /\ epoch < MaxOpens
    /\ IF openable
       THEN /\ file' = "open"
            /\ epoch' = epoch + 1
            /\ pos' = 0
            /\ header' = SamParseHeader(header, lines)
            /\ err' = NoErr
       ELSE /\ err' = WrapEnterError(FileNotFoundError)
            /\ file' = FileAfterFailedEnter(file)
            /\ UNCHANGED <<epoch, pos, header>>
    /\ gens' = Touch(gens, 0)
    /\ ret' = None
    /\ UNCHANGED <<inputVars, fastaVars, header_parsed, vcfVars>>

SamClose ==
    /\ call' = "close"
    /\ fmt = "SAM"
    /\ GenomicClose

\* SamReader._ensure_header_parsed, as get_header and get_header_group call
\* it; Result(h) is what the caller returns from the header mapping h.
SamEnsureHeader(h, parsed, f, ls) ==
    IF parsed THEN [ok |-> TRUE, header |-> h, parsed |-> TRUE, moved |-> FALSE]
    ELSE IF f # "open" THEN [ok |-> FALSE, header |-> h, parsed |-> FALSE, moved |-> FALSE]
    ELSE [ok |-> TRUE, header |-> SamParseHeader(h, ls), parsed |-> TRUE, moved |-> TRUE]

SamHeaderCall(group) ==
    LET e == SamEnsureHeader(header, header_parsed, file, lines)
    IN /\ header' = e.header
       /\ header_parsed' = e.parsed
       /\ pos' = IF e.moved THEN 0 ELSE pos
       /\ gens' = IF e.moved THEN Touch(gens, 0) ELSE gens
       /\ err' = IF e.ok THEN NoErr ELSE FileUseError(file)
       /\ ret' = IF ~e.ok THEN None
                 ELSE IF group = <<>> THEN e.header
                 ELSE IF group \in DOMAIN e.header THEN e.header[group] ELSE <<>>
       /\ UNCHANGED <<inputVars, fastaVars, file, epoch, vcfVars>>

SamGetHeader ==
    /\ call' = "get_header"
    /\ fmt = "SAM"
    /\ SamHeaderCall(<<>>)

SamGetHeaderGroup ==
    /\ call' = "get_header_group"
    /\ fmt = "SAM"
    /\ \E tag \in {<<"@", "S", "Q">>, <<"@", "H", "D">>} : SamHeaderCall(tag)

\* A faulty read() without the self.file.seek(0): it starts at the cursor.
SamReadFromCursor(p) == p

\* The cursor after the self.file.seek(0) that opens SamReader.read().
SamReadStart(p) == 0

\* One next() on a generator of SamReader.read()
SamReadNext ==
    /\ call' = "next(read)"
    /\ \E g \in GenIds :
           LET gen == gens[g]
               fresh == gen.pc = "new"
               usable == IF fresh THEN file = "open"
                         ELSE file = "open" /\ gen.fobj = epoch
               p == IF fresh THEN SamReadStart(pos) ELSE pos
               i == NextYield("SAM", lines, p)
           IN /\ fmt = "SAM"
              /\ gen.kind = "read"
              /\ Live(g)
              /\ IF ~usable
                 THEN /\ gens' = Touch([gens EXCEPT ![g].pc = "raised"], g)
                      /\ err' = IF fresh THEN FileUseError(file) ELSE ClosedFileError
                      /\ pos' = pos
                 ELSE /\ gens' = Touch([gens EXCEPT
                            ![g].fobj = epoch,
                            ![g].start = IF fresh THEN pos ELSE @,
                            ![g].pc = IF i = 0 THEN "done" ELSE "suspended",
                            ![g].out = IF i = 0 THEN @ ELSE Append(@, SamRecord(lines[i]))], g)
                      /\ pos' = IF i = 0 THEN Len(lines) ELSE i
                      /\ err' = NoErr
              /\ ret' = None
              /\ UNCHANGED <<inputVars, fastaVars, file, epoch, header_parsed, samVars, vcfVars>>

RangeNeverBad(lo, hi) == FALSE
\* if start > end: raise ValueError("start must be <= end")
BadRange(lo, hi) == lo > hi
RangeError == Err("ValueError", "start must be <= end", <<>>)

\* A faulty test that asks the record to lie inside the region.
SamInsideRegion(rec, chrom, lo, hi) ==
    rec.chrom = chrom /\ rec.start >= lo /\ rec.end <= hi

\* rec.chrom == chrom and rec.start <= end and rec.end >= start
SamInRegion(rec, chrom, lo, hi) ==
    rec.chrom = chrom /\ rec.start <= hi /\ rec.end >= lo

\* The first line after cursor p whose record lies in the region; 0 when none.
SamNextMatch(ls, p, chrom, lo, hi) ==
    LET hit(i) == SamYields(ls[i]) /\ SamInRegion(SamRecord(ls[i]), chrom, lo, hi)
    IN IF \E i \in (p + 1)..Len(ls) : hit(i)
       THEN CHOOSE i \in (p + 1)..Len(ls) : hit(i) /\ \A j \in (p + 1)..(i - 1) : ~hit(j)
       ELSE 0

\* One next() on a generator of SamReader.filter_by_region()
SamFilterNext ==
    /\ call' = "next(filter_by_region)"
    /\ \E g \in GenIds :
           LET gen == gens[g]
               fresh == gen.pc = "new"
               badRange == fresh /\ BadRange(gen.lo, gen.hi)
               usable == IF fresh THEN file = "open"
                         ELSE file = "open" /\ gen.fobj = epoch
               p == IF fresh THEN SamReadStart(0) ELSE pos
               i == SamNextMatch(lines, p, gen.chrom, gen.lo, gen.hi)
           IN /\ fmt = "SAM"
              /\ gen.kind = "filter"
              /\ Live(g)
              /\ IF badRange
                 THEN /\ gens' = [gens EXCEPT ![g].pc = "raised"]
                      /\ err' = RangeError
                      /\ pos' = pos
                 ELSE IF ~usable
                 THEN /\ gens' = Touch([gens EXCEPT ![g].pc = "raised"], g)
                      /\ err' = IF fresh THEN FileUseError(file) ELSE ClosedFileError
                      /\ pos' = pos
                 ELSE /\ gens' = Touch([gens EXCEPT
                            ![g].fobj = epoch,
                            ![g].start = IF fresh THEN pos ELSE @,
                            ![g].pc = IF i = 0 THEN "done" ELSE "suspended",
                            ![g].out = IF i = 0 THEN @ ELSE Append(@, SamRecord(lines[i]))], g)
                      /\ pos' = IF i = 0 THEN 0 ELSE i
                      /\ err' = NoErr
              /\ ret' = None
              /\ UNCHANGED <<inputVars, fastaVars, file, epoch, header_parsed, samVars, vcfVars>>

\* A faulty count that takes only the lines read() yields a record for.
SamCountParsed(line) == SamYields(line)

\* SamReader.count_alignments()
SamCountLine(line) ==
    LET fields == SamFields(line)
    IN ~IsSamHeaderLine(line) /\ Len(fields) >= MinSamFields /\ fields[3] # <<"*">>

SamCount ==
    /\ call' = "count_alignments"
    /\ fmt = "SAM"
    /\ IF file # "open"
       THEN /\ err' = FileUseError(file)
            /\ ret' = None
            /\ UNCHANGED <<pos, gens>>
       ELSE /\ err' = NoErr
            /\ ret' = Cardinality({i \in 1..Len(lines) : SamCountLine(lines[i])})
            /\ pos' = 0
            /\ gens' = Touch(gens, 0)
    /\ UNCHANGED <<inputVars, fastaVars, file, epoch, header_parsed, samVars, vcfVars>>

RECURSIVE CountRows(_, _)
\* Counter over the chrom of each record, as rows <<chrom, count>> in the
\* order the chroms first occur (dict insertion order)
CountRows(rows, recs) ==
    IF recs = <<>> THEN rows
    ELSE LET c == Head(recs).chrom
         IN IF \E k \in 1..Len(rows) : rows[k][1] = c
            THEN CountRows([k \in 1..Len(rows) |->
                               IF rows[k][1] = c THEN <<c, rows[k][2] + 1>> ELSE rows[k]],
                           Tail(recs))
            ELSE CountRows(Append(rows, <<c, 1>>), Tail(recs))

\* SamReader.stats_by_chromosome()
SamStats ==
    /\ call' = "stats_by_chromosome"
    /\ fmt = "SAM"
    /\ IF file # "open"
       THEN /\ err' = FileUseError(file)
            /\ ret' = None
            /\ UNCHANGED <<pos, gens>>
       ELSE /\ err' = NoErr
            /\ ret' = CountRows(<<>>, ScanFrom("SAM", lines, SamReadStart(0)))
            /\ pos' = 0
            /\ gens' = Touch(gens, 0)
    /\ UNCHANGED <<inputVars, fastaVars, file, epoch, header_parsed, samVars, vcfVars>>

NextSam ==
    \/ SamEnter \/ SamClose \/ SamGetHeader \/ SamGetHeaderGroup
    \/ NewRead \/ NewFilter \/ Discard
    \/ SamReadNext \/ SamFilterNext \/ SamCount \/ SamStats

SpecSam == InitSam /\ [][NextSam]_vars

\* -------------------------------------------------------------- VCF reader
InitVcf ==
    /\ fmt = "VCF"
    /\ \/ openable = TRUE /\ lines \in VcfFiles(MaxVcfLines)
       \/ openable = FALSE /\ lines = <<>>
    /\ InitReader

MissingChromError == Err("ValueError", "no #CHROM line", <<>>)

\* A faulty _parse_header that lacks the `if self._header_parsed: return` guard.
VcfParseHeaderUnguarded(parsed, f, hl, ch, ls) ==
    IF f # "open"
    THEN [ok |-> FALSE, error |-> FileUseError(f), header_lines |-> hl,
          column_header |-> ch, parsed |-> FALSE, moved |-> FALSE]
    ELSE LET scan == VcfHeaderScan(hl, ch, ls)
         IN IF scan.found
            THEN [ok |-> TRUE, error |-> NoErr, header_lines |-> scan.header_lines,
                  column_header |-> scan.column_header, parsed |-> TRUE, moved |-> TRUE]
            ELSE [ok |-> FALSE, error |-> MissingChromError,
                  header_lines |-> scan.header_lines, column_header |-> ch,
                  parsed |-> FALSE, moved |-> TRUE]

\* VcfReader._parse_header on the reader state (parsed flag, self.file, the
\* two header fields) and the file content: what it leaves behind.  moved
\* says the cursor was repositioned; after a failure it is at the end.
VcfParseHeader(parsed, f, hl, ch, ls) ==
    IF parsed
    THEN [ok |-> TRUE, error |-> NoErr, header_lines |-> hl, column_header |-> ch,
          parsed |-> TRUE, moved |-> FALSE]
    ELSE IF f # "open"
    THEN [ok |-> FALSE, error |-> FileUseError(f), header_lines |-> hl,
          column_header |-> ch, parsed |-> FALSE, moved |-> FALSE]
    ELSE LET scan == VcfHeaderScan(hl, ch, ls)
         IN IF scan.found
            THEN [ok |-> TRUE, error |-> NoErr, header_lines |-> scan.header_lines,
                  column_header |-> scan.column_header, parsed |-> TRUE, moved |-> TRUE]
            ELSE [ok |-> FALSE, error |-> MissingChromError,
                  header_lines |-> scan.header_lines, column_header |-> ch,
                  parsed |-> FALSE, moved |-> TRUE]

\* with VcfReader(path) as reader: GenomicDataReader.__enter__
VcfEnter ==
    /\ call' = "__enter__"
    /\ fmt = "VCF"
    /\ file # "open"
    /\ epoch < MaxOpens
    /\ IF openable
       THEN LET e == VcfParseHeader(header_parsed, "open", header_lines, column_header, lines)
            IN /\ file' = IF e.ok THEN "open" ELSE FileAfterFailedEnter("open")
               /\ epoch' = epoch + 1
               /\ pos' = 0
               /\ header_lines' = e.header_lines
               /\ column_header' = e.column_header
               /\ header_parsed' = e.parsed
               /\ err' = IF e.ok THEN NoErr ELSE WrapEnterError(e.error)
       ELSE /\ err' = WrapEnterError(FileNotFoundError)
            /\ file' = FileAfterFailedEnter(file)
            /\ UNCHANGED <<epoch, pos, header_lines, column_header, header_parsed>>
    /\ gens' = Touch(gens, 0)
    /\ ret' = None
    /\ UNCHANGED <<inputVars, fastaVars, samVars>>

VcfClose ==
    /\ call' = "close"
    /\ fmt = "VCF"
    /\ GenomicClose

\* The state a header step e leaves, shared by every method that starts with
\* `if not self._header_parsed: self._parse_header()`.
VcfHeaderStep(e) ==
    /\ header_lines' = e.header_lines
    /\ column_header' = e.column_header
    /\ header_parsed' = e.parsed

\* [line for line in self.header_lines if line.startswith(f"##{key}=")]
VcfGroup(hl, key) ==
    SelectSeq(hl, LAMBDA l : StartsWith(l, <<"#", "#">> \o key \o <<"=">>))

VcfHeaderCall(key) ==
    LET e == VcfParseHeader(header_parsed, file, header_lines, column_header, lines)
    IN /\ VcfHeaderStep(e)
       /\ pos' = IF e.moved THEN (IF e.ok THEN 0 ELSE Len(lines)) ELSE pos
       /\ gens' = IF e.moved THEN Touch(gens, 0) ELSE gens
       /\ err' = e.error
       /\ ret' = IF ~e.ok THEN None
                 ELSE IF key = <<>> THEN e.header_lines
                 ELSE VcfGroup(e.header_lines, key)
       /\ UNCHANGED <<inputVars, fastaVars, file, epoch, samVars>>

VcfGetHeader ==
    /\ call' = "get_header"
    /\ fmt = "VCF"
    /\ VcfHeaderCall(<<>>)

VcfGetHeaderGroup ==
    /\ call' = "get_header_group"
    /\ fmt = "VCF"
    /\ \E key \in {<<"a">>, <<"b">>} : VcfHeaderCall(key)

\* A step that does not reach the header check: the header state stays.
VcfHeaderKept ==
    [ok |-> TRUE, error |-> NoErr, header_lines |-> header_lines,
     column_header |-> column_header, parsed |-> header_parsed, moved |-> FALSE]

\* One next() on a generator of VcfReader.read()
VcfReadNext ==
    /\ call' = "next(read)"
    /\ \E g \in GenIds :
           LET gen == gens[g]
               fresh == gen.pc = "new"
               e == IF fresh
                    THEN VcfParseHeader(header_parsed, file, header_lines, column_header, lines)
                    ELSE VcfHeaderKept
               usable == IF fresh THEN e.ok /\ file = "open"
                         ELSE file = "open" /\ gen.fobj = epoch
               p == IF e.moved THEN 0 ELSE pos
               i == NextYield("VCF", lines, p)
           IN /\ fmt = "VCF"
              /\ gen.kind = "read"
              /\ Live(g)
              /\ VcfHeaderStep(e)
              /\ IF ~usable
                 THEN /\ gens' = Touch([gens EXCEPT ![g].pc = "raised"], g)
                      /\ err' = IF ~fresh THEN ClosedFileError
                                ELSE IF ~e.ok THEN e.error ELSE FileUseError(file)
                      /\ pos' = IF e.moved THEN Len(lines) ELSE pos
                 ELSE /\ gens' = Touch([gens EXCEPT
                            ![g].fobj = epoch,
                            ![g].start = IF fresh THEN pos ELSE @,
                            ![g].pc = IF i = 0 THEN "done" ELSE "suspended",
                            ![g].out = IF i = 0 THEN @ ELSE Append(@, VcfRecord(lines[i]))], g)
                      /\ pos' = IF i = 0 THEN Len(lines) ELSE i
                      /\ err' = NoErr
              /\ ret' = None
              /\ UNCHANGED <<inputVars, fastaVars, file, epoch, samVars>>

\* rec.chrom == chrom and start <= rec.pos <= end
VcfInRegion(rec, chrom, lo, hi) == rec.chrom = chrom /\ lo <= rec.pos /\ rec.pos <= hi

VcfNextMatch(ls, p, chrom, lo, hi) ==
    LET hit(i) == VcfYields(ls[i]) /\ VcfInRegion(VcfRecord(ls[i]), chrom, lo, hi)
    IN IF \E i \in (p + 1)..Len(ls) : hit(i)
       THEN CHOOSE i \in (p + 1)..Len(ls) : hit(i) /\ \A j \in (p + 1)..(i - 1) : ~hit(j)
       ELSE 0

\* Faulty queries without their closing self.file.seek(0).
VcfNoRewind(p) == p

\* The cursor filter_by_region and the queries leave once their scan is over.
VcfRewind(p) == 0

VcfFilterFromCursor(p) == p
\* self.file.seek(0) before filter_by_region's loop over read()
VcfFilterStart(p) == 0

\* One next() on a generator of VcfReader.filter_by_region()
VcfFilterNext ==
    /\ call' = "next(filter_by_region)"
    /\ \E g \in GenIds :
           LET gen == gens[g]
               fresh == gen.pc = "new"
               badRange == fresh /\ BadRange(gen.lo, gen.hi)
               e == IF fresh /\ ~badRange
                    THEN VcfParseHeader(header_parsed, file, header_lines, column_header, lines)
                    ELSE VcfHeaderKept
               usable == IF fresh THEN e.ok /\ file = "open"
                         ELSE file = "open" /\ gen.fobj = epoch
               p == IF fresh THEN VcfFilterStart(pos) ELSE pos
               i == VcfNextMatch(lines, p, gen.chrom, gen.lo, gen.hi)
           IN /\ fmt = "VCF"
              /\ gen.kind = "filter"
              /\ Live(g)
              /\ VcfHeaderStep(e)
              /\ IF badRange
                 THEN /\ gens' = [gens EXCEPT ![g].pc = "raised"]
                      /\ err' = RangeError
                      /\ pos' = pos
                 ELSE IF ~usable
                 THEN /\ gens' = Touch([gens EXCEPT ![g].pc = "raised"], g)
                      /\ err' = IF ~fresh THEN ClosedFileError
                                ELSE IF ~e.ok THEN e.error ELSE FileUseError(file)
                      /\ pos' = IF e.moved THEN Len(lines) ELSE pos
                 ELSE /\ gens' = Touch([gens EXCEPT
                            ![g].fobj = epoch,
                            ![g].start = IF fresh THEN pos ELSE @,
                            ![g].pc = IF i = 0 THEN "done" ELSE "suspended",
                            ![g].out = IF i = 0 THEN @ ELSE Append(@, VcfRecord(lines[i]))], g)
                      /\ pos' = IF i = 0 THEN VcfRewind(Len(lines)) ELSE i
                      /\ err' = NoErr
              /\ ret' = None
              /\ UNCHANGED <<inputVars, fastaVars, file, epoch, samVars>>

\* VcfReader.count_variants()
VcfCount ==
    /\ call' = "count_variants"
    /\ LET e == VcfParseHeader(header_parsed, file, header_lines, column_header, lines)
       IN /\ fmt = "VCF"
          /\ VcfHeaderStep(e)
          /\ IF ~(e.ok /\ file = "open")
             THEN /\ err' = IF ~e.ok THEN e.error ELSE FileUseError(file)
                  /\ ret' = None
                  /\ pos' = IF e.moved THEN Len(lines) ELSE pos
                  /\ gens' = IF e.moved THEN Touch(gens, 0) ELSE gens
             ELSE /\ err' = NoErr
                  /\ ret' = Cardinality({i \in 1..Len(lines) : ~StartsWith(lines[i], <<"#">>)})
                  /\ pos' = VcfRewind(Len(lines))
                  /\ gens' = Touch(gens, 0)
          /\ UNCHANGED <<inputVars, fastaVars, file, epoch, samVars>>

\* A faulty table left in the order the chroms were first met.
RowsUnsorted(rows) == rows

RECURSIVE SortRows(_)
\* df.sort_values("region"): the rows in ascending order of their first column
SortRows(rows) ==
    IF rows = <<>> THEN <<>>
    ELSE LET m == CHOOSE k \in 1..Len(rows) :
                     \A j \in 1..Len(rows) : ~StrLess(rows[j][1], rows[k][1])
         IN <<rows[m]>> \o SortRows([k \in 1..(Len(rows) - 1) |->
                                       IF k < m THEN rows[k] ELSE rows[k + 1]])

\* VcfReader.stats_by_region()
VcfStats ==
    /\ call' = "stats_by_region"
    /\ LET e == VcfParseHeader(header_parsed, file, header_lines, column_header, lines)
       IN /\ fmt = "VCF"
          /\ VcfHeaderStep(e)
          /\ IF ~(e.ok /\ file = "open")
             THEN /\ err' = IF ~e.ok THEN e.error ELSE FileUseError(file)
                  /\ ret' = None
                  /\ pos' = IF e.moved THEN Len(lines) ELSE pos
                  /\ gens' = IF e.moved THEN Touch(gens, 0) ELSE gens
             ELSE /\ err' = NoErr
                  /\ ret' = SortRows(CountRows(<<>>, ScanFrom("VCF", lines, 0)))
                  /\ pos' = VcfRewind(Len(lines))
                  /\ gens' = Touch(gens, 0)
          /\ UNCHANGED <<inputVars, fastaVars, file, epoch, samVars>>

NextVcf ==
    \/ VcfEnter \/ VcfClose \/ VcfGetHeader \/ VcfGetHeaderGroup
    \/ NewRead \/ NewFilter \/ Discard
    \/ VcfReadNext \/ VcfFilterNext \/ VcfCount \/ VcfStats

SpecVcf == InitVcf /\ [][NextVcf]_vars

\* ------------------------------------------------------------ FASTQ reader
NeverLazyOpen(fresh, f) == FALSE
\* `if not self.file: self.file = open(self.filepath, "r")` at the start of
\* the body of FastqReader.read() and FastaReader.read()
LazyOpen(fresh, f) == fresh /\ f = "none"

\* self.file.readline() with the cursor at p: the empty text at end of file
ReadLine(ls, p) == IF p < Len(ls) THEN ls[p + 1] ELSE <<>>

\* The first whitespace-delimited token of s, <<>> when s has none.
FirstToken(s) ==
    LET t == LStrip(s, Whitespace)
        ends == {i \in 1..Len(t) : t[i] \in Whitespace}
    IN IF ends = {} THEN t
       ELSE SubSeq(t, 1, (CHOOSE i \in ends : \A j \in ends : i <= j) - 1)

\* A faulty _parse_quality that decodes with the Phred+64 offset.
ParseQualityPhred64(q) == [i \in 1..Len(q) |-> Ord(q[i]) - 64]

\* FastqReader._parse_quality: [ord(ch) - 33 for ch in quality_str]
PhredOffset == 33
parse_quality(q) == [i \in 1..Len(q) |-> Ord(q[i]) - PhredOffset]

\* The four readline() calls of one turn of the loop leave the cursor here.
LinesPerRecord == 4
AfterGroup(ls, p) == IF p + LinesPerRecord <= Len(ls) THEN p + LinesPerRecord ELSE Len(ls)

\* A faulty loop without the completeness test.
FastqNeverIncomplete(hdr, sequence, plus_line, quality) == FALSE

\* The test that ends the loop after the four lines were read.
FastqIncomplete(hdr, sequence, plus_line, quality) ==
    ~(hdr # <<>> /\ sequence # <<>> /\ plus_line # <<>> /\ quality # <<>>)

\* One turn of the `while True` loop of FastqReader.read() with the cursor
\* at p: the loop ends ("end"), raises ("raise") or yields a record ("yield").
FastqStep(ls, p) ==
    LET hdr == ReadLine(ls, p)
        sequence == RStrip(ReadLine(ls, p + 1), {NL})
        plus_line == ReadLine(ls, p + 2)
        quality == RStrip(ReadLine(ls, p + 3), {NL})
        seq_id == IF Len(hdr) > 1 THEN FirstToken(Tail(hdr))
                  ELSE <<"u", "n", "k", "n", "o", "w", "n">>
        seq_clean == Upper(sequence)
        Out(kind, e, rec, q) == [kind |-> kind, error |-> e, rec |-> rec, pos |-> q]
    IN IF hdr = <<>> THEN Out("end", NoErr, None, p)
       ELSE IF FastqIncomplete(hdr, sequence, plus_line, quality)
       THEN Out("end", NoErr, None, AfterGroup(ls, p))
       ELSE IF ~StartsWith(hdr, <<"@">>)
       THEN Out("raise", Err("ValueError", "expected @", Strip(hdr)), None, AfterGroup(ls, p))
       ELSE IF ~StartsWith(plus_line, <<"+">>)
       THEN Out("raise", Err("ValueError", "expected +", Strip(plus_line)), None,
                AfterGroup(ls, p))
       ELSE IF Len(hdr) > 1 /\ LStrip(Tail(hdr), Whitespace) = <<>>
       THEN Out("raise", Err("IndexError", "list index out of range", <<>>), None,
                AfterGroup(ls, p))
       ELSE IF Len(seq_clean) # Len(quality)
       THEN Out("raise", Err("ValueError", "length mismatch", seq_id), None,
                AfterGroup(ls, p))
       ELSE IF seq_clean = <<>>
       THEN Out("raise", Err("ValueError", "empty sequence", seq_id), None,
                AfterGroup(ls, p))
       ELSE Out("yield", NoErr,
                [id |-> seq_id, sequence |-> seq_clean, quality |-> parse_quality(quality)],
                AfterGroup(ls, p))

\* -------------------------------------------------------------- FASTQ inputs
TextLine(s) == Append(s, NL)
FqHeaderA == TextLine(<<"@", "a", Space, "x">>)
FqHeaderB == TextLine(<<"@", "b">>)
FqPlus == TextLine(<<"+">>)
FastqGroups ==
    { \* well formed, lower-case bases
      <<FqHeaderA, TextLine(<<"a", "c">>), FqPlus, TextLine(<<"I", "!">>)>>,
      \* well formed
      <<FqHeaderB, TextLine(<<"G">>), FqPlus, TextLine(<<"5">>)>>,
      \* the header line does not start with "@"
      <<TextLine(<<"a">>), TextLine(<<"A", "C">>), FqPlus, TextLine(<<"I", "I">>)>>,
      \* the separator line does not start with "+"
      <<FqHeaderA, TextLine(<<"A", "C">>), TextLine(<<"-">>), TextLine(<<"I", "I">>)>>,
      \* sequence and quality differ in length
      <<FqHeaderA, TextLine(<<"A", "C">>), FqPlus, TextLine(<<"I">>)>>,
      \* the sequence line is empty, and so is the quality line
      <<FqHeaderA, TextLine(<<>>), FqPlus, TextLine(<<>>)>>,
      \* the quality line is empty
      <<FqHeaderA, TextLine(<<"A", "C">>), FqPlus, TextLine(<<>>)>>,
      \* the header line is "@" alone
      <<TextLine(<<"@">>), TextLine(<<"A">>), FqPlus, TextLine(<<"I">>)>> }

RECURSIVE Concat(_)
Concat(ss) == IF ss = <<>> THEN <<>> ELSE Head(ss) \o Concat(Tail(ss))

\* The first k lines of a well-formed record: a partial trailing record.
FastqTail(k) == SubSeq(<<FqHeaderB, TextLine(<<"G">>), FqPlus, TextLine(<<"5">>)>>, 1, k)

\* Every file of at most n four-line groups followed by a partial record.
FastqFiles(n) ==
    { Concat(gs) \o FastqTail(k) :
        gs \in UNION {[1..m -> FastqGroups] : m \in 0..n}, k \in 0..(LinesPerRecord - 1) }

InitFastq ==
    /\ fmt = "FASTQ"
    /\ \/ openable = TRUE /\ lines \in FastqFiles(MaxGroups)
       \/ openable = FALSE /\ lines = <<>>
    /\ InitReader

\* with FastqReader(path) as reader: FastqReader.__enter__
FastqEnter ==
    /\ call' = "__enter__"
    /\ fmt = "FASTQ"
    /\ file # "open"
    /\ epoch < MaxOpens
    /\ IF openable
       THEN /\ file' = "open"
            /\ epoch' = epoch + 1
            /\ pos' = 0
            /\ err' = NoErr
       ELSE /\ err' = FileNotFoundError
            /\ UNCHANGED <<file, epoch, pos>>
    /\ gens' = Touch(gens, 0)
    /\ ret' = None
    /\ UNCHANGED <<inputVars, fastaVars, header_parsed, samVars, vcfVars>>

\* FastqReader.close(), which __exit__ calls
FastqClose ==
    /\ call' = "close"
    /\ fmt = "FASTQ"
    /\ file' = IF file # "none" THEN "none" ELSE file
    /\ pos' = 0
    /\ gens' = Touch(gens, 0)
    /\ err' = NoErr
    /\ ret' = None
    /\ UNCHANGED <<inputVars, fastaVars, epoch, header_parsed, samVars, vcfVars>>

\* One next() on a generator of FastqReader.read()
FastqReadNext ==
    /\ call' = "next(read)"
    /\ \E g \in GenIds :
           LET gen == gens[g]
               fresh == gen.pc = "new"
               reopen == LazyOpen(fresh, file)
               usable == IF reopen THEN openable ELSE file = "open"
               p == IF reopen THEN 0 ELSE pos
               st == FastqStep(lines, p)
           IN /\ fmt = "FASTQ"
              /\ gen.kind = "read"
              /\ Live(g)
              /\ reopen /\ openable => epoch < MaxOpens
              /\ IF ~usable
                 THEN /\ gens' = Touch([gens EXCEPT ![g].pc = "raised"], g)
                      /\ err' = IF reopen THEN FileNotFoundError ELSE FileUseError(file)
                      /\ UNCHANGED <<file, epoch, pos>>
                 ELSE /\ file' = "open"
                      /\ epoch' = IF reopen THEN epoch + 1 ELSE epoch
                      /\ pos' = st.pos
                      /\ err' = st.error
                      /\ gens' = Touch([gens EXCEPT
                            ![g].fobj = epoch',
                            ![g].start = IF fresh THEN p ELSE @,
                            ![g].opened = IF fresh THEN reopen ELSE @,
                            ![g].pc = CASE st.kind = "yield" -> "suspended"
                                        [] st.kind = "end" -> "done"
                                        [] OTHER -> "raised",
                            ![g].out = IF st.kind = "yield" THEN Append(@, st.rec) ELSE @], g)
              /\ ret' = None
              /\ UNCHANGED <<inputVars, fastaVars, header_parsed, samVars, vcfVars>>

NextFastq == FastqEnter \/ FastqClose \/ NewRead \/ Discard \/ FastqReadNext

SpecFastq == InitFastq /\ [][NextFastq]_vars

\* ------------------------------------------------------------ FASTA reader
\* validate_sequence: allowed_chars = set("ACGTURYKMSWBDHVN-")
AllowedChars ==
    {"A", "C", "G", "T", "U", "R", "Y", "K", "M", "S", "W", "B", "D", "H", "V", "N", "-"}
ValidateAnything(seq) == TRUE
validate_sequence(seq) == \A i \in 1..Len(seq) : seq[i] \in AllowedChars

\* raise ValueError(f"... {seq_id}")
InvalidSequenceError(seq_id) == Err("ValueError", "invalid sequence", seq_id)

\* get_sequence(seq_id, seq): the record, or the error it raises
get_sequence(seq_id, seq) ==
    LET s == Upper(Strip(seq))
    IN IF ~validate_sequence(s)
       THEN [ok |-> FALSE, error |-> InvalidSequenceError(seq_id),
             rec |-> [id |-> seq_id, sequence |-> <<>>]]
       ELSE [ok |-> TRUE, error |-> NoErr, rec |-> [id |-> seq_id, sequence |-> s]]

\* record = self.get_sequence(seq_id, "".join(seq_lines)); yield record
\* p: the lines consumed when the generator stops; next: seq_id after the
\* yield, as a sequence of at most one text (<<>> is None); at_end: the yield
\* is the one after the loop.
FastaEmit(seq_id, seq, p, next, at_end) ==
    LET r == get_sequence(seq_id, seq)
    IN [kind |-> IF r.ok THEN "yield" ELSE "raise", rec |-> r.rec, error |-> r.error,
        pos |-> p, next |-> next, at_end |-> at_end]

FastaFlushAlways(id) == id # <<>>
\* `if seq_id:` after the loop
FastaFlushAtEnd(id) == id # <<>> /\ id[1] # <<>>

SeqLinesReplace(acc, line) == line
\* seq_lines.append(line), seq_lines kept as the text "".join(seq_lines)
SeqLinesAppend(acc, line) == acc \o line

RECURSIVE FastaScan(_, _, _, _)
\* The body of read() from line p on, with seq_id = id (<<>> is None) and
\* "".join(seq_lines) = acc, up to its next yield, raise or return.
FastaScan(ls, p, id, acc) ==
    IF p >= Len(ls)
    THEN IF FastaFlushAtEnd(id)
         THEN FastaEmit(id[1], acc, Len(ls), <<>>, TRUE)
         ELSE [kind |-> "end", rec |-> [id |-> <<>>, sequence |-> <<>>], error |-> NoErr,
               pos |-> Len(ls), next |-> <<>>, at_end |-> TRUE]
    ELSE LET line == Strip(ls[p + 1])
         IN IF line = <<>> THEN FastaScan(ls, p + 1, id, acc)
            ELSE IF StartsWith(line, <<">">>)
            THEN IF id # <<>>
                 THEN FastaEmit(id[1], acc, p + 1, <<Strip(Tail(line))>>, FALSE)
                 ELSE FastaScan(ls, p + 1, <<Strip(Tail(line))>>, <<>>)
            ELSE FastaScan(ls, p + 1, id, SeqLinesAppend(acc, line))

\* The lines of the modelled FASTA files.
MaxFastaLines == 3
FastaPool ==
    { TextLine(<<">", "s">>),                       \* a marker
      TextLine(<<">", Space, "t", Space, "u", Space>>), \* a marker with blanks around the id
      TextLine(<<">">>),                            \* a marker with an empty id
      TextLine(<<"a", "c">>),                       \* lower-case bases
      TextLine(<<Space, "G", "T", "N", Space>>),    \* bases with blanks around
      TextLine(<<"a", "x">>),                       \* a character outside the alphabet
      TextLine(<<>>) }                              \* a blank line

InitFasta == fmt = "FASTA" /\ InitFile(FastaPool, MaxFastaLines) /\ InitReader

\* FastaReader.__enter__
FastaEnter ==
    /\ call' = "__enter__"
    /\ fmt = "FASTA"
    /\ file # "open"
    /\ epoch < MaxOpens
    /\ IF openable
       THEN /\ file' = "open"
            /\ epoch' = epoch + 1
            /\ pos' = 0
            /\ err' = NoErr
       ELSE /\ err' = FileNotFoundError
            /\ UNCHANGED <<file, epoch, pos>>
    /\ gens' = Touch(gens, 0)
    /\ ret' = None
    /\ UNCHANGED <<inputVars, fastaVars, header_parsed, samVars, vcfVars>>

\* FastaReader.close(), which __exit__ calls
FastaClose ==
    /\ call' = "close"
    /\ fmt = "FASTA"
    /\ file' = IF file # "none" THEN "none" ELSE file
    /\ pos' = 0
    /\ gens' = Touch(gens, 0)
    /\ err' = NoErr
    /\ ret' = None
    /\ UNCHANGED <<inputVars, fastaVars, epoch, header_parsed, samVars, vcfVars>>

CountOnEveryStep(fresh, n, add) == n + add
\* self._seq_count += 1 and self._total_length += len(record.sequence), the
\* statements after each yield: they run when the generator is resumed.
CountAfterYield(fresh, n, add) == IF fresh THEN n ELSE n + add

\* One next() on a generator of FastaReader.read().  A generator suspended at
\* a yield first runs the two statements after that yield, which add the
\* yielded record to the counters, and then goes on with the loop over the
\* file object it captured (or returns, after the yield that follows the loop).
FastaReadNext ==
    /\ call' = "next(read)"
    /\ \E g \in GenIds :
           LET gen == gens[g]
               fresh == gen.pc = "new"
               reopen == LazyOpen(fresh, file)
               usable == IF reopen THEN openable
                         ELSE file = "open" /\ (fresh \/ gen.fobj = epoch)
               p == IF reopen THEN 0 ELSE pos
               st == FastaScan(lines, p, IF fresh THEN <<>> ELSE gen.seq_id, <<>>)
           IN /\ fmt = "FASTA"
              /\ gen.kind = "read"
              /\ Live(g)
              /\ reopen /\ openable => epoch < MaxOpens
              /\ seq_count' = CountAfterYield(fresh, seq_count, 1)
              /\ total_length' = CountAfterYield(fresh, total_length, gen.owed)
              /\ IF ~fresh /\ gen.at_end
                 THEN /\ gens' = Touch([gens EXCEPT ![g].pc = "done"], g)
                      /\ err' = NoErr
                      /\ UNCHANGED <<file, epoch, pos>>
                 ELSE IF ~usable
                 THEN /\ gens' = Touch([gens EXCEPT ![g].pc = "raised"], g)
                      /\ err' = IF reopen THEN FileNotFoundError ELSE ClosedFileError
                      /\ UNCHANGED <<file, epoch, pos>>
                 ELSE /\ file' = "open"
                      /\ epoch' = IF reopen THEN epoch + 1 ELSE epoch
                      /\ pos' = st.pos
                      /\ err' = st.error
                      /\ gens' = Touch([gens EXCEPT
                            ![g].fobj = epoch',
                            ![g].start = IF fresh THEN p ELSE @,
                            ![g].opened = IF fresh THEN reopen ELSE @,
                            ![g].pc = CASE st.kind = "yield" -> "suspended"
                                        [] st.kind = "end" -> "done"
                                        [] OTHER -> "raised",
                            ![g].out = IF st.kind = "yield" THEN Append(@, st.rec) ELSE @,
                            ![g].seq_id = st.next,
                            ![g].owed = IF st.kind = "yield" THEN Len(st.rec.sequence) ELSE 0,
                            ![g].at_end = st.at_end], g)
              /\ tally' = IF gens'[g].pc = "suspended"
                           THEN [tally EXCEPT !.records = @ + 1,
                                              !.bases = @ + gens'[g].owed]
                           ELSE tally
              /\ ret' = None
              /\ UNCHANGED <<inputVars, header_parsed, samVars, vcfVars>>

\* FastaReader.get_seq_score()
FastaGetSeqScore ==
    /\ call' = "get_seq_score"
    /\ fmt = "FASTA"
    /\ ret' = seq_count
    /\ err' = NoErr
    /\ UNCHANGED <<inputVars, fastaVars, file, epoch, pos, header_parsed, samVars, vcfVars,
                   gens>>

\* total / count as the fraction the float division is taken of
Ratio(total, count) == [num |-> total, den |-> count]
MeanOfSum(total, count) == Ratio(total, 1)
\* FastaReader.get_mean_seq_length()
MeanSeqLength(total, count) == IF count = 0 THEN Ratio(0, 1) ELSE Ratio(total, count)
FastaGetMeanSeqLength ==
    /\ call' = "get_mean_seq_length"
    /\ fmt = "FASTA"
    /\ ret' = MeanSeqLength(total_length, seq_count)
    /\ err' = NoErr
    /\ UNCHANGED <<inputVars, fastaVars, file, epoch, pos, header_parsed, samVars, vcfVars,
                   gens>>

NextFasta ==
    \/ FastaEnter \/ FastaClose \/ NewRead \/ Discard \/ FastaReadNext
    \/ FastaGetSeqScore \/ FastaGetMeanSeqLength

SpecFasta == InitFasta /\ [][NextFasta]_vars

\* ------------------------------------------- _calc_aligned_length, called alone
\* The static method is called on a CIGAR string; no file is involved.  The
\* string is given as its operations, lines[i] being the text of the i-th
\* one (a length and a letter), or as the single text "*".
MaxCigarOps == 3
CigarLengths == { <<"5", "0">>, <<"1", "0">>, <<"2", "0">>, <<"3", "0">> }
CigarTokens == { Append(n, op) : n \in CigarLengths, op \in CigarOps }
CigarInputs == FilesOver(CigarTokens, MaxCigarOps) \cup { << <<"*">> >> }

InitCigar ==
    /\ fmt = "CIGAR"
    /\ openable = FALSE
    /\ lines \in CigarInputs
    /\ InitReader

\* SamReader._calc_aligned_length(cigar)
CalcAlignedLength ==
    /\ call' = "_calc_aligned_length"
    /\ fmt = "CIGAR"
    /\ call = "__init__"
    /\ ret' = calc_aligned_length(Concat(lines))
    /\ err' = NoErr
    /\ UNCHANGED <<inputVars, fastaVars, file, epoch, pos, header_parsed, samVars, vcfVars,
                   gens>>

NextCigar == CalcAlignedLength

SpecCigar == InitCigar /\ [][NextCigar]_vars

\* --------------------------------------------------- _parse_info, called alone
\* The static method is called on an INFO string; no file is involved.  The
\* string is given as its ";"-separated tokens, lines[i] being the i-th one.
MaxInfoTokens == 3
InfoTokens ==
    { <<"k", "=", "v">>,              \* key and value
      <<"k", "=", "w">>,              \* the same key again
      <<"f">>,                        \* a flag
      <<>>,                           \* an empty token
      <<"g", "=", "a", "=", "b">>,    \* a value with "=" in it
      <<".">> }                       \* "." alone is the missing INFO
InfoInputs == FilesOver(InfoTokens, MaxInfoTokens)

InitInfo ==
    /\ fmt = "INFO"
    /\ openable = FALSE
    /\ lines \in InfoInputs
    /\ InitReader

\* VcfReader._parse_info(info_str)
ParseInfo ==
    /\ call' = "_parse_info"
    /\ fmt = "INFO"
    /\ call = "__init__"
    /\ ret' = parse_info(Join(lines, ";"))
    /\ err' = NoErr
    /\ UNCHANGED <<inputVars, fastaVars, file, epoch, pos, header_parsed, samVars, vcfVars,
                   gens>>

NextInfo == ParseInfo

SpecInfo == InitInfo /\ [][NextInfo]_vars

\* ------------------------------------------------------------ all readers
Init == InitSam \/ InitVcf \/ InitFastq \/ InitFasta

Next ==
    \/ SamEnter \/ SamClose \/ SamGetHeader \/ SamGetHeaderGroup
    \/ SamReadNext \/ SamFilterNext \/ SamCount \/ SamStats
    \/ VcfEnter \/ VcfClose \/ VcfGetHeader \/ VcfGetHeaderGroup
    \/ VcfReadNext \/ VcfFilterNext \/ VcfCount \/ VcfStats
    \/ FastqEnter \/ FastqClose \/ FastqReadNext
    \/ FastaEnter \/ FastaClose \/ FastaReadNext \/ FastaGetSeqScore \/ FastaGetMeanSeqLength
    \/ NewRead \/ NewFilter \/ Discard

Spec == Init /\ [][Next]_vars

\* =================================================================== claims
\* A generator of read() that ran to its end with no other call on the file
\* between its steps.
FullPass(g, f) ==
    /\ fmt = f
    /\ gens[g].kind = "read"
    /\ gens[g].pc = "done"
    /\ gens[g].alone

\* C1: within the first scope entry of a SAM reader the header mapping is the
\* one a single parse of the file builds, however many times get_header(),
\* get_header_group() or _ensure_header_parsed() ran: every header line of
\* the leading "@" block is stored once, in file order, under its tag.
C1_HeaderParsedOnce ==
    (fmt = "SAM" /\ file = "open" /\ epoch = 1) => header = SamHeaderFold(<<>>, lines)

\* C2: once a VCF reader's header is parsed, every later call on the reader in
\* the same scope entry leaves header_lines and column_header as they are,
\* get_header() and get_header_group() leave the cursor where it was, and a
\* read() starts its scan at the cursor it found.
C2_VcfHeaderParsedOnce ==
    [][(fmt = "VCF" /\ header_parsed) =>
         /\ header_parsed' => (header_lines' = header_lines /\ column_header' = column_header)
         /\ call' \in {"get_header", "get_header_group"} => pos' = pos
         /\ \A g \in GenIds :
               (gens[g].kind = "read" /\ gens[g].pc = "new" /\ gens'[g].pc = "suspended")
                   => gens'[g].out = <<VcfRecord(lines[NextYield("VCF", lines, pos)])>>
       ]_vars

\* C2 witness: get_header() has returned the non-empty header of a parsed reader.
C2_Witness ==
    /\ fmt = "VCF" /\ header_parsed /\ header_lines # <<>>
    /\ call = "get_header" /\ err = NoErr /\ ret = header_lines

NoChromLine(ls) == \A i \in 1..Len(ls) : ~StartsWith(ls[i], ChromMarker)

\* The inputs on which entering the scope fails.
EnterFails ==
    \/ fmt \in {"SAM", "VCF"} /\ ~openable
    \/ fmt = "VCF" /\ NoChromLine(lines)

\* C3: when entering the scope of a SAM or VCF reader fails -- as it does for
\* every VCF file with no "#CHROM" line -- the file is not left open, the
\* error is one RuntimeError that carries the path and the cause, and no
\* generator of the reader ever yields a record.
C3_FailedEnterReleases ==
    /\ [](EnterFails => \A g \in GenIds : gens[g].out = <<>>)
    /\ [][(fmt \in {"SAM", "VCF"} /\ call' = "__enter__") =>
            /\ EnterFails <=> err'.type # "none"
            /\ err'.type # "none" =>
                  /\ file' # "open"
                  /\ err'.type = "RuntimeError"
                  /\ err'.path
                  /\ err'.cause \in {"ValueError", "FileNotFoundError"}
                  /\ (fmt = "VCF" /\ openable) => err'.cause = "ValueError"
         ]_vars

\* C3 witness: a VCF file that opens but has no "#CHROM" line was entered, and
\* a read() on the reader has then been tried.
C3_Witness ==
    /\ fmt = "VCF" /\ openable /\ lines # <<>> /\ NoChromLine(lines)
    /\ file = "closed"
    /\ \E g \in GenIds : gens[g].kind = "read" /\ gens[g].pc = "raised"

\* C4: close() -- and with it the end of the scope -- leaves the reader with no
\* file handle (self.file is None) and raises nothing, and a close() on a
\* reader that is already closed changes nothing.
C4_CloseClearsHandle ==
    [][call' = "close" =>
          /\ file' = "none"
          /\ err' = NoErr
          /\ file = "none" =>
                UNCHANGED <<file, epoch, pos, header_parsed, header, header_lines,
                            column_header>>
      ]_vars

\* C5: every read() of a SAM reader that runs to its end yields the records
\* of the whole file, in file order, wherever the cursor stood when it began.
C5_SamReadRescans ==
    \A g \in GenIds : FullPass(g, "SAM") => gens[g].out = ScanFrom("SAM", lines, 0)

\* C5 witness: a read() that began with the cursor past the start of the file
\* has run to its end and yielded records.
C5_Witness ==
    \E g \in GenIds : FullPass(g, "SAM") /\ gens[g].start > 0 /\ gens[g].out # <<>>

\* C6: a read() of a VCF reader that runs to its end yields the variants of
\* the lines after the cursor it began at -- all of them from the start of the
\* file, none right after an exhausted read(), which leaves the cursor at the
\* end -- and count_variants(), stats_by_region() and an exhausted
\* filter_by_region() leave the cursor at the start of the file.
C6_VcfReadFromCursor ==
    /\ [](\A g \in GenIds :
            FullPass(g, "VCF") =>
              /\ gens[g].out = ScanFrom("VCF", lines, gens[g].start)
              /\ gens[g].start = Len(lines) => gens[g].out = <<>>)
    /\ [][fmt = "VCF" =>
            /\ (call' \in {"count_variants", "stats_by_region"} /\ err' = NoErr) => pos' = 0
            /\ \A g \in GenIds :
                  (gens[g].pc \in {"new", "suspended"} /\ gens'[g].pc = "done") =>
                      pos' = IF gens[g].kind = "filter" THEN 0 ELSE Len(lines)
         ]_vars

\* C6 witness: on a file that holds variants, a read() begun at the end of the
\* file, where an exhausted read() left the cursor, has ended with no record.
C6_Witness ==
    \E g \in GenIds :
        /\ FullPass(g, "VCF")
        /\ gens[g].start = Len(lines)
        /\ gens[g].out = <<>>
        /\ ScanFrom("VCF", lines, 0) # <<>>

\* The file errors a step of a generator can meet: self.file is None or closed.
FileErrors == {AttributeError, ClosedFileError}

\* The text of a line without its line terminator.
Chomp(line) == RStrip(line, {NL})

\* The line is one the SAM claim has yield a record, its fields being those of
\* the tab-split text fs.
C7_Kept(line, fs) ==
    /\ line[1] # "@"
    /\ Len(fs) >= 11
    /\ fs[3] # <<"*">>
    /\ IsInt(fs[4])
    /\ IsInt(fs[2])
    /\ (IsInt(fs[5]) \/ fs[5] = <<"*">>)

C7_KeptStripped(line) == C7_Kept(line, Split(Strip(line), Tab))
C7_KeptRaw(line) == C7_Kept(line, Split(Chomp(line), Tab))

\* C7 as stated: a full read() of a SAM file yields one record for each line
\* that has at least 11 tab-separated fields.
C7_SamSkipRawFields ==
    \A g \in GenIds :
        FullPass(g, "SAM") => Len(gens[g].out) = Len(SelectSeq(lines, C7_KeptRaw))

\* C7: a step of read() on an open SAM file never raises; a full read()
\* yields, in file order, one record for each line that does not start with
\* "@" and whose text, stripped of leading and trailing whitespace, splits
\* into at least 11 tab-separated fields with RNAME other than "*",
\* integer POS and FLAG and a MAPQ that is an integer or "*" (mapped to 0);
\* no record has chrom "*".
C7_SamSkipDontFail ==
    /\ [](\A g \in GenIds :
            FullPass(g, "SAM") =>
              LET kept == SelectSeq(lines, C7_KeptStripped)
              IN /\ Len(gens[g].out) = Len(kept)
                 /\ \A k \in 1..Len(kept) :
                       LET fs == Split(Strip(kept[k]), Tab)
                           rec == gens[g].out[k]
                       IN /\ rec.id = fs[1]
                          /\ rec.chrom = fs[3]
                          /\ rec.chrom # <<"*">>
                          /\ rec.start = IntOf(fs[4])
                          /\ rec.flag = IntOf(fs[2])
                          /\ rec.mapq = IF fs[5] = <<"*">> THEN 0 ELSE IntOf(fs[5]))
    /\ [][(fmt = "SAM" /\ call' = "next(read)") =>
            /\ err' \in {NoErr} \cup FileErrors
            /\ (file = "open" /\ \A g \in GenIds : gens[g].pc = "new") => err' = NoErr
         ]_vars

\* C7 witness: a full read() has yielded a record from a file that also holds
\* a line whose eleven fields end in two empty ones.
C7_Witness ==
    \E g \in GenIds :
        /\ FullPass(g, "SAM")
        /\ gens[g].out # <<>>
        /\ \E i \in 1..Len(lines) : C7_KeptRaw(lines[i]) /\ ~C7_KeptStripped(lines[i])

\* The line is one the VCF claim has yield a record, its columns being cs.
C8_Kept(line, cs) ==
    /\ line[1] # "#"
    /\ Len(cs) >= 5
    /\ IsInt(cs[2])

C8_KeptStripped(line) == C8_Kept(line, Split(Strip(line), Tab))
C8_KeptRaw(line) == C8_Kept(line, Split(Chomp(line), Tab))

\* The lines after the cursor a read() began at.
LinesAfter(g) == SubSeq(lines, gens[g].start + 1, Len(lines))

\* C8 as stated: a full read() of a VCF file yields one record for each line
\* that has at least 5 tab-separated fields.
C8_VcfSkipRawFields ==
    \A g \in GenIds :
        FullPass(g, "VCF") =>
            Len(gens[g].out) = Len(SelectSeq(LinesAfter(g), C8_KeptRaw))

\* C8: a step of read() on an open VCF file never raises; a full read()
\* yields, in file order, one record for each line after the cursor that does
\* not start with "#" and whose text, stripped of leading and trailing
\* whitespace, splits into at least 5 tab-separated columns with an integer
\* POS: chrom, pos, ref, alt from columns 1, 2, 4, 5, id "<chrom>:<pos>",
\* filter from column 7 or ".", info decoded from column 8 or empty.
C8_VcfSkipDontFail ==
    /\ [](\A g \in GenIds :
            FullPass(g, "VCF") =>
              LET kept == SelectSeq(LinesAfter(g), C8_KeptStripped)
              IN /\ Len(gens[g].out) = Len(kept)
                 /\ \A k \in 1..Len(kept) :
                       LET cs == Split(Strip(kept[k]), Tab)
                           rec == gens[g].out[k]
                       IN /\ rec.chrom = cs[1]
                          /\ rec.pos = IntOf(cs[2])
                          /\ rec.ref = cs[4]
                          /\ rec.alt = cs[5]
                          /\ rec.id = cs[1] \o <<":">> \o IntStr(IntOf(cs[2]))
                          /\ rec.filter = IF Len(cs) >= 7 THEN cs[7] ELSE <<".">>
                          /\ rec.info = IF Len(cs) >= 8 THEN parse_info(cs[8]) ELSE <<>>)
    /\ [][(fmt = "VCF" /\ call' = "next(read)") =>
            /\ err' \in {NoErr} \cup FileErrors
            /\ (file = "open" /\ \A g \in GenIds : gens[g].pc = "new") => err' = NoErr
         ]_vars

\* C8 witness: a full read() from the start of the file has yielded a record
\* with a decoded INFO column, from a file that also holds a line whose five
\* columns end in an empty one.
C8_Witness ==
    \E g \in GenIds :
        /\ FullPass(g, "VCF")
        /\ gens[g].start = 0
        /\ \E k \in 1..Len(gens[g].out) : gens[g].out[k].info # <<>>
        /\ \E i \in 1..Len(lines) : C8_KeptRaw(lines[i]) /\ ~C8_KeptStripped(lines[i])

\* The four-line groups the file is made of, a trailing partial one left out.
FastqGroupsOf(ls) ==
    [k \in 1..(Len(ls) \div LinesPerRecord) |->
        SubSeq(ls, LinesPerRecord * (k - 1) + 1, LinesPerRecord * k)]

\* A read() begun at the start of the file that ended without an error.
EndedQuietly(g) == FullPass(g, "FASTQ") /\ gens[g].start = 0

\* C9: a read() of a FASTQ file never ends without an error when the file
\* holds a four-line group whose header line does not start with "@", whose
\* separator line does not start with "+", or whose sequence and quality lines
\* differ in length.
C9_FastqMalformedRaises ==
    \A g \in GenIds :
        EndedQuietly(g) =>
            \A k \in 1..Len(FastqGroupsOf(lines)) :
                LET grp == FastqGroupsOf(lines)[k]
                IN /\ grp[1][1] = "@"
                   /\ grp[3][1] = "+"
                   /\ Len(Chomp(grp[2])) = Len(Chomp(grp[4]))

\* C10: a read() of a FASTQ file never ends without an error when the file
\* holds a four-line group whose sequence line is empty.
C10_FastqEmptySequenceRaises ==
    \A g \in GenIds :
        EndedQuietly(g) =>
            \A k \in 1..Len(FastqGroupsOf(lines)) :
                Chomp(FastqGroupsOf(lines)[k][2]) # <<>>

\* The text of a header line between its "@" and the first whitespace after
\* the leading whitespace, <<>> when there is none.
C12_Token(hdr) ==
    LET body == SubSeq(hdr, 2, Len(hdr))
        from == {i \in 1..Len(body) : body[i] \notin Whitespace}
    IN IF from = {} THEN <<>>
       ELSE LET a == CHOOSE i \in from : \A j \in from : i <= j
                to == {i \in a..Len(body) : body[i] \in Whitespace}
                b == IF to = {} THEN Len(body) + 1
                     ELSE CHOOSE i \in to : \A j \in to : i <= j
            IN SubSeq(body, a, b - 1)

\* A four-line group is a well-formed record but for the identifier.
FqShaped(grp) ==
    /\ grp[1][1] = "@"
    /\ grp[3][1] = "+"
    /\ Chomp(grp[2]) # <<>>
    /\ Len(Chomp(grp[2])) = Len(Chomp(grp[4]))

FqWellFormed(grp) == FqShaped(grp) /\ C12_Token(grp[1]) # <<>>

\* The record of a well-formed four-line group.
FqExpected(grp) ==
    [id |-> C12_Token(grp[1]),
     sequence |-> Upper(Chomp(grp[2])),
     quality |-> [i \in 1..Len(Chomp(grp[4])) |-> Ord(Chomp(grp[4])[i]) - 33]]

\* A read() of a FASTQ reader begun at the start of the file, with no other
\* call on the file between its steps.
FqPass(g) ==
    /\ fmt = "FASTQ"
    /\ gens[g].kind = "read"
    /\ gens[g].start = 0
    /\ gens[g].alone

\* The file is n well-formed records followed by one to three more lines.
C11_Input ==
    /\ Len(lines) % LinesPerRecord \in 1..3
    /\ \A k \in 1..Len(FastqGroupsOf(lines)) : FqWellFormed(FastqGroupsOf(lines)[k])

\* C11: on a FASTQ file of n well-formed four-line records followed by a
\* partial record of one to three lines, read() yields the n records in order
\* and then ends; it raises nothing.
C11_FastqPartialTailDropped ==
    \A g \in GenIds :
        (FqPass(g) /\ C11_Input) =>
            LET grps == FastqGroupsOf(lines)
                out == gens[g].out
            IN /\ gens[g].pc # "raised"
               /\ Len(out) <= Len(grps)
               /\ \A k \in 1..Len(out) : out[k] = FqExpected(grps[k])
               /\ gens[g].pc = "done" => Len(out) = Len(grps)

\* C11 witness: a read() has ended after yielding the records of a file that
\* ends in a partial record.
C11_Witness ==
    \E g \in GenIds :
        FqPass(g) /\ C11_Input /\ gens[g].pc = "done" /\ gens[g].out # <<>>

\* C12: a FASTQ record whose header line has no token after the "@" is
\* yielded with the id "unknown", and every other record with the first
\* whitespace-delimited token after the "@" as its id.
C12_FastqIdOrUnknown ==
    \A g \in GenIds :
        (FqPass(g) /\ gens[g].pc # "new" /\ Len(lines) >= LinesPerRecord
            /\ FqShaped(FastqGroupsOf(lines)[1])) =>
            LET hdr == FastqGroupsOf(lines)[1][1]
            IN /\ gens[g].out # <<>>
               /\ gens[g].out[1].id = IF C12_Token(hdr) = <<>>
                                      THEN <<"u", "n", "k", "n", "o", "w", "n">>
                                      ELSE C12_Token(hdr)

\* C13: every record FASTQ read() yields has as many quality values as bases,
\* the i-th value being the code of the i-th character of the quality line
\* minus 33, and its sequence is the sequence line in upper case.
C13_FastqQualityDecoded ==
    \A g \in GenIds :
        /\ (fmt = "FASTQ" /\ gens[g].kind = "read") =>
              \A k \in 1..Len(gens[g].out) :
                  Len(gens[g].out[k].quality) = Len(gens[g].out[k].sequence)
        /\ FqPass(g) =>
              \A k \in 1..Len(gens[g].out) :
                  LET grp == FastqGroupsOf(lines)[k]
                      rec == gens[g].out[k]
                      q == Chomp(grp[4])
                  IN /\ rec.sequence = Upper(Chomp(grp[2]))
                     /\ Len(rec.quality) = Len(q)
                     /\ \A i \in 1..Len(q) : rec.quality[i] = Ord(q[i]) - 33

\* C13 witness: a record with bases AC, read from the line "ac", and quality
\* values 40 and 0, read from the line "I!", has been yielded.
C13_Witness ==
    \E g \in GenIds :
        /\ FqPass(g)
        /\ gens[g].out # <<>>
        /\ gens[g].out[1].sequence = <<"A", "C">>
        /\ gens[g].out[1].quality = <<40, 0>>
        /\ Chomp(lines[2]) = <<"a", "c">>

\* The stripped line is a marker line, one starting with ">".
FaMarker(line) == StartsWith(Strip(line), <<">">>)
FaMarkers(ls) == {i \in 1..Len(ls) : FaMarker(ls[i])}
\* The k-th marker line of the file.
FaNth(ls, k) == CHOOSE i \in FaMarkers(ls) : Cardinality({j \in FaMarkers(ls) : j < i}) = k - 1
\* The line after the block of marker line i: the next marker or the end.
FaBlockEnd(ls, i) ==
    IF \E j \in FaMarkers(ls) : j > i
    THEN CHOOSE j \in FaMarkers(ls) : j > i /\ \A h \in FaMarkers(ls) : h > i => j <= h
    ELSE Len(ls) + 1
\* The record of marker line i, as the format describes it.
FaRecordAt(ls, i) ==
    [id |-> Strip(Tail(Strip(ls[i]))),
     sequence |-> Upper(Concat([n \in 1..(FaBlockEnd(ls, i) - i - 1) |-> Strip(ls[i + n])]))]
FaExpected(ls) == [k \in 1..Cardinality(FaMarkers(ls)) |-> FaRecordAt(ls, FaNth(ls, k))]
FaValid(rec) == \A i \in 1..Len(rec.sequence) : rec.sequence[i] \in AllowedChars
\* A generator of FastaReader.read() first advanced at the start of the file
\* and not disturbed by another call on the file since.
FaPass(g) ==
    /\ fmt = "FASTA"
    /\ gens[g].kind = "read"
    /\ gens[g].start = 0
    /\ gens[g].alone

\* C14: for a FASTA file whose marker lines all carry a non-empty identifier
\* and whose sequences are all valid, a read() run from the start of the file
\* to its end yields exactly one record per marker line, in file order, with
\* the trimmed text after ">" as id and the upper-cased concatenation of the
\* stripped lines up to the next marker or the end of input as sequence;
\* blank lines add nothing and lines before the first marker are in no record.
C14_Input ==
    \A k \in 1..Len(FaExpected(lines)) :
        FaExpected(lines)[k].id # <<>> /\ FaValid(FaExpected(lines)[k])
C14_FastaStateMachine ==
    \A g \in GenIds :
        (FaPass(g) /\ gens[g].pc = "done" /\ C14_Input) => gens[g].out = FaExpected(lines)
\* A pass over a marker line followed by two sequence lines: one record of
\* the five bases of both lines.
C14_Witness ==
    \E g \in GenIds :
        /\ FaPass(g) /\ gens[g].pc = "done" /\ C14_Input
        /\ Len(gens[g].out) = 1
        /\ Len(gens[g].out[1].sequence) = 5

\* The indices of the records whose sequence has a character outside the alphabet.
FaBad(recs) == {k \in 1..Len(recs) : ~FaValid(recs[k])}
FaFirstBad(recs) == CHOOSE k \in FaBad(recs) : \A h \in FaBad(recs) : k <= h
\* A finished pass over a file of records recs: it has raised exactly when
\* some record is invalid, after yielding the records before the first such.
FaFailFast(g, recs) ==
    (FaPass(g) /\ openable /\ gens[g].pc \in {"done", "raised"}) =>
        IF FaBad(recs) = {}
        THEN gens[g].pc = "done"
        ELSE gens[g].pc = "raised" /\ gens[g].out = SubSeq(recs, 1, FaFirstBad(recs) - 1)
\* The step that makes the pass raise reports the first invalid record's id.
FaNamesRecord(g, recs) ==
    (gens[g].pc # "raised" /\ gens'[g].pc = "raised" /\ FaPass(g)' /\ openable) =>
        /\ FaBad(recs) # {}
        /\ err' = InvalidSequenceError(recs[FaFirstBad(recs)].id)
\* The records read() flushes: every record of the file but a last one whose
\* identifier is empty.
FaFlushed(ls) ==
    LET recs == FaExpected(ls)
    IN IF recs # <<>> /\ recs[Len(recs)].id = <<>>
       THEN SubSeq(recs, 1, Len(recs) - 1)
       ELSE recs

\* C15 as stated: when the upper-cased concatenated sequence of a record has a
\* character outside {A,C,G,T,U,R,Y,K,M,S,W,B,D,H,V,N,-}, read() raises a
\* validation error naming that record's id instead of yielding it; every
\* earlier record was yielded, no later one is, and lower-case letters of the
\* alphabet are accepted.
C15_FastaFailFast ==
    /\ [](\A g \in GenIds : FaFailFast(g, FaExpected(lines)))
    /\ [][\A g \in GenIds : FaNamesRecord(g, FaExpected(lines))]_vars

\* C15, amended: the same for every record read() flushes, that is every
\* record but a last record of the input whose identifier is empty; such a
\* record is dropped unvalidated and read() ends without an error.
C15_FastaFailFastFlushed ==
    /\ [](\A g \in GenIds : FaFailFast(g, FaFlushed(lines)))
    /\ [][\A g \in GenIds : FaNamesRecord(g, FaFlushed(lines))]_vars

\* A pass that yielded a record and then raised on the next one, the error
\* naming that record.
C15_Witness ==
    \E g \in GenIds :
        /\ FaPass(g) /\ openable /\ gens[g].pc = "raised"
        /\ gens[g].out # <<>>
        /\ call = "next(read)"
        /\ err = InvalidSequenceError(FaFlushed(lines)[Len(gens[g].out) + 1].id)

RECURSIVE FaTotal(_)
\* The sum of the sequence lengths of the records recs.
FaTotal(recs) == IF recs = <<>> THEN 0 ELSE Len(Head(recs).sequence) + FaTotal(Tail(recs))
\* The first read() of a reader, run from the start of the file to its end,
\* over a file with no invalid sequence: the file was opened once, and until
\* this pass no other one has moved its cursor.
FaSinglePass(g) ==
    /\ FaPass(g)
    /\ gens[g].pc = "done"
    /\ epoch = 1
    /\ FaBad(FaExpected(lines)) = {}

\* C16: after a single read() pass run to exhaustion on a fresh reader over a
\* valid FASTA file, _seq_count is the number of records yielded,
\* _total_length the sum of their sequence lengths, get_seq_score() returns
\* that count and get_mean_seq_length() the total divided by the count, or
\* 0.0 when the count is 0.
C16_FastaCounters ==
    \A g \in GenIds :
        FaSinglePass(g) =>
            LET n == Len(gens[g].out)
                total == FaTotal(gens[g].out)
            IN /\ seq_count = n
               /\ total_length = total
               /\ call = "get_seq_score" => ret = n
               /\ call = "get_mean_seq_length" =>
                      IF n = 0 THEN ret.num = 0
                      ELSE ret.num * n = total * ret.den /\ ret.den # 0

\* The mean is asked for after a pass that yielded two records with bases.
C16_Witness ==
    \E g \in GenIds :
        /\ FaSinglePass(g)
        /\ Len(gens[g].out) = 2
        /\ FaTotal(gens[g].out) > 0
        /\ call = "get_mean_seq_length"

\* The length and the letter of an operation given as text.
CigarLetter(tok) == tok[Len(tok)]
CigarOperand(tok) ==
    LET n == SubSeq(tok, 1, Len(tok) - 1)
    IN CASE n = <<"5", "0">> -> 50 [] n = <<"1", "0">> -> 10
         [] n = <<"2", "0">> -> 20 [] n = <<"3", "0">> -> 30
RECURSIVE CigarRefSum(_)
\* The sum of the operands of the operations that consume the reference.
CigarRefSum(toks) ==
    IF toks = <<>> THEN 0
    ELSE (IF CigarLetter(Head(toks)) \in {"M", "D", "N", "=", "X"}
          THEN CigarOperand(Head(toks)) ELSE 0) + CigarRefSum(Tail(toks))

\* C17: the aligned reference length of a CIGAR string is the sum of the
\* operands of its operations with a letter in {M, D, N, =, X}; I, S, H and P
\* add nothing; the empty string and "*" give 0; "50M10D20M" gives 80 and
\* "30I" gives 0.
C17_CigarAlignedLength ==
    (fmt = "CIGAR" /\ call = "_calc_aligned_length") =>
        /\ lines = << <<"*">> >> => ret = 0
        /\ lines = <<>> => ret = 0
        /\ lines # << <<"*">> >> => ret = CigarRefSum(lines)
        /\ lines = << <<"5", "0", "M">>, <<"1", "0", "D">>, <<"2", "0", "M">> >> => ret = 80
        /\ lines = << <<"3", "0", "I">> >> => ret = 0

\* The length of "50M10D20M" has been computed.
C17_Witness ==
    /\ fmt = "CIGAR"
    /\ call = "_calc_aligned_length"
    /\ lines = << <<"5", "0", "M">>, <<"1", "0", "D">>, <<"2", "0", "M">> >>
    /\ ret = 80

\* The record rec carries the POS of some line of the file with its id and
\* CIGAR, and ends where the aligned length of that CIGAR puts it.
SamSpanOf(rec, ls) ==
    \E i \in 1..Len(ls) :
        LET fields == Split(Chomp(ls[i]), Tab)
            aligned == calc_aligned_length(rec.cigar)
        IN /\ Len(fields) >= 6
           /\ rec.id = fields[1]
           /\ rec.cigar = fields[6]
           /\ IsInt(fields[4])
           /\ rec.start = IntOf(fields[4])
           /\ rec.end = IF aligned > 0 THEN rec.start + aligned - 1 ELSE rec.start

FilterPass(g, f) ==
    /\ fmt = f
    /\ gens[g].kind = "filter"
    /\ gens[g].pc = "done"
    /\ gens[g].alone
    /\ gens[g].lo <= gens[g].hi

\* C19: SAM filter_by_region(chrom, start, end) with start <= end, run to
\* exhaustion, yields exactly the records of read(), in read()'s order, whose
\* chrom is chrom and whose interval overlaps the query: rec.start <= end and
\* rec.end >= start.
C19_SamFilterByRegion ==
    \A g \in GenIds :
        FilterPass(g, "SAM") =>
            LET Overlaps(rec) ==
                    /\ rec.chrom = gens[g].chrom
                    /\ rec.start <= gens[g].hi
                    /\ rec.end >= gens[g].lo
            IN gens[g].out = SelectSeq(ScanFrom("SAM", lines, 0), Overlaps)

\* A filter over a file of two alignments has ended with one of them.
C19_Witness ==
    \E g \in GenIds :
        /\ FilterPass(g, "SAM")
        /\ Len(gens[g].out) = 1
        /\ Len(ScanFrom("SAM", lines, 0)) = 2

\* C20: VCF filter_by_region(chrom, start, end) with start <= end, run to
\* exhaustion, yields exactly the records of a full read() pass over the
\* file, in that order, with rec.chrom = chrom and start <= rec.pos <= end,
\* wherever the cursor stood when the iteration began.
C20_VcfFilterByRegion ==
    \A g \in GenIds :
        FilterPass(g, "VCF") =>
            LET Within(rec) ==
                    /\ rec.chrom = gens[g].chrom
                    /\ gens[g].lo <= rec.pos
                    /\ rec.pos <= gens[g].hi
            IN gens[g].out = SelectSeq(ScanFrom("VCF", lines, 0), Within)

\* A filter begun with the cursor past the first variant line has ended with
\* some of the variants of the file, that first one among them.
C20_Witness ==
    \E g \in GenIds :
        /\ FilterPass(g, "VCF")
        /\ gens[g].start > 0
        /\ gens[g].out # <<>>
        /\ Len(gens[g].out) < Len(ScanFrom("VCF", lines, 0))
        /\ gens[g].out[1] = ScanFrom("VCF", lines, 0)[1]
        /\ ScanFrom("VCF", lines, gens[g].start) # ScanFrom("VCF", lines, 0)

\* C21: on SAM and VCF readers a filter_by_region(chrom, start, end) with
\* start > end fails with the argument error before any record is yielded:
\* the first advance of its iterator raises ValueError("start must be <=
\* end"), whatever the state of the file; the range is not corrected, nothing
\* is ever yielded, and the cursor, the file and the header state are as
\* they were before the call and before the advance.
C21_BadRangeRaises ==
    /\ [](\A g \in GenIds :
            (gens[g].kind = "filter" /\ gens[g].lo > gens[g].hi) =>
                gens[g].out = <<>> /\ gens[g].pc \in {"new", "raised"})
    /\ [][\A g \in GenIds :
            (gens'[g].kind = "filter" /\ gens'[g].lo > gens'[g].hi
                /\ gens[g].pc \in {"none", "new"} /\ gens'[g] # gens[g]) =>
                /\ (gens[g].pc = "none" =>
                        call' = "filter_by_region" /\ err' = NoErr /\ gens'[g].pc = "new")
                /\ (gens[g].pc = "new" =>
                        /\ call' = "next(filter_by_region)"
                        /\ gens'[g] = [gens[g] EXCEPT !.pc = "raised"]
                        /\ err' = RangeError)
                /\ UNCHANGED <<file, epoch, pos, header_parsed, header, header_lines,
                               column_header>>]_vars

\* The iterator of a filter over (c, 2, 1) has been advanced and has raised,
\* on an open reader whose cursor a read() had moved.
C21_Witness ==
    \E g \in GenIds :
        /\ gens[g].kind = "filter" /\ gens[g].lo > gens[g].hi
        /\ gens[g].pc = "raised"
        /\ call = "next(filter_by_region)"
        /\ err = RangeError
        /\ file = "open"
        /\ pos > 0

\* The line is one count_alignments is said to count, fs being its fields.
C22_Counted(line, fs) == line[1] # "@" /\ Len(fs) >= 11 /\ fs[3] # <<"*">>
\* POS, MAPQ and FLAG of the fields fs can be parsed ("*" is a MAPQ of 0).
C22_Parses(fs) == IsInt(fs[4]) /\ IsInt(fs[2]) /\ (IsInt(fs[5]) \/ fs[5] = <<"*">>)
\* count_alignments() has returned: its result is the number of counted
\* lines, which is at least the number of records of a full read() and equal
\* to it exactly when every counted line parses, and the cursor is at the
\* start of the file.
C22_CountIs(counted, unparsed) ==
    (fmt = "SAM" /\ call = "count_alignments" /\ err = NoErr) =>
        LET full == Len(ScanFrom("SAM", lines, 0))
        IN /\ ret = Cardinality(counted)
           /\ ret >= full
           /\ (ret = full) <=> (unparsed = {})
           /\ pos = 0

\* C22 as stated: count_alignments() returns the number of lines that do not
\* start with "@", have at least 11 tab-separated fields and an RNAME other
\* than "*"; it is at least the number of records of a full read(), with
\* equality exactly when no such line has an unparsable POS, MAPQ or FLAG;
\* the cursor is left at the start of the file.
C22_SamCountRawFields ==
    C22_CountIs({i \in 1..Len(lines) : C22_Counted(lines[i], Split(Chomp(lines[i]), Tab))},
                {i \in 1..Len(lines) :
                    /\ C22_Counted(lines[i], Split(Chomp(lines[i]), Tab))
                    /\ ~C22_Parses(Split(Chomp(lines[i]), Tab))})

\* C22, amended: the same with the fields of a line taken after its leading
\* and trailing whitespace, tabs included, is stripped, so that a line whose
\* trailing fields are empty is counted without them.
C22_SamCountAlignments ==
    C22_CountIs({i \in 1..Len(lines) : C22_Counted(lines[i], Split(Strip(lines[i]), Tab))},
                {i \in 1..Len(lines) :
                    /\ C22_Counted(lines[i], Split(Strip(lines[i]), Tab))
                    /\ ~C22_Parses(Split(Strip(lines[i]), Tab))})

\* count_alignments() has counted two lines of which read() yields one.
C22_Witness ==
    /\ fmt = "SAM" /\ call = "count_alignments" /\ err = NoErr
    /\ ret = 2
    /\ Len(ScanFrom("SAM", lines, 0)) = 1
    /\ pos = 0

\* C23: count_variants() returns the number of lines of the file that are
\* non-empty and do not start with "#", whether read() yields a record for
\* them or not; so it is at least the number of records of a full read().
C23_VcfCountVariants ==
    (fmt = "VCF" /\ call = "count_variants" /\ err = NoErr) =>
        /\ ret = Cardinality({i \in 1..Len(lines) :
                                 Chomp(lines[i]) # <<>> /\ lines[i][1] # "#"})
        /\ ret >= Len(ScanFrom("VCF", lines, 0))

\* C24: stats_by_region() returns one row per distinct chrom among the
\* records of a full read() pass, in ascending order of the chrom, the count
\* of a row being the number of those records with its chrom; so the counts
\* sum to the number of parsed variants, and the table is empty when the
\* file has no parsable variant.
C24_VcfStatsByRegion ==
    (fmt = "VCF" /\ call = "stats_by_region" /\ err = NoErr) =>
        LET recs == ScanFrom("VCF", lines, 0)
            Of(c) == {i \in 1..Len(recs) : recs[i].chrom = c}
        IN /\ {ret[k][1] : k \in 1..Len(ret)} = {recs[i].chrom : i \in 1..Len(recs)}
           /\ \A k \in 1..(Len(ret) - 1) : StrLess(ret[k][1], ret[k + 1][1])
           /\ \A k \in 1..Len(ret) : ret[k][2] = Cardinality(Of(ret[k][1]))
           /\ recs = <<>> => ret = <<>>

\* The table of a file whose first variant is on d and second on c: the row
\* of c comes first.
C24_Witness ==
    /\ fmt = "VCF" /\ call = "stats_by_region" /\ err = NoErr
    /\ Len(ScanFrom("VCF", lines, 0)) = 2
    /\ ScanFrom("VCF", lines, 0)[1].chrom = <<"d">>
    /\ ret = << << <<"c">>, 1 >>, << <<"d">>, 1 >> >>

\* The place of the first "=" of a token that has one.
InfoEq(tok) == CHOOSE i \in 1..Len(tok) : tok[i] = "=" /\ \A j \in 1..(i - 1) : tok[j] # "="
InfoHasEq(tok) == \E i \in 1..Len(tok) : tok[i] = "="
InfoKey(tok) == IF InfoHasEq(tok) THEN SubSeq(tok, 1, InfoEq(tok) - 1) ELSE tok
InfoValue(tok) ==
    IF InfoHasEq(tok) THEN SubSeq(tok, InfoEq(tok) + 1, Len(tok)) ELSE <<"T", "r", "u", "e">>
\* The mapping d holds, for each non-empty token, its key with the value of
\* the last token that has this key, and nothing else.
InfoMaps(d, toks) ==
    LET used == {i \in 1..Len(toks) : toks[i] # <<>>}
    IN /\ DOMAIN d = {InfoKey(toks[i]) : i \in used}
       /\ \A i \in used :
              (\A j \in used : j > i => InfoKey(toks[j]) # InfoKey(toks[i])) =>
                  d[InfoKey(toks[i])] = InfoValue(toks[i])

\* C25: the mapping _parse_info builds has, for each non-empty
\* ";"-separated token of the INFO string, the entry key -> value of the
\* split at the first "=" (later "=" stay in the value), or token -> "True"
\* when the token has no "="; the empty string and "." give the empty
\* mapping; of several tokens with one key the last gives the value.
C25_VcfInfoDecoding ==
    (fmt = "INFO" /\ call = "_parse_info") =>
        IF lines \in {<<>>, << <<>> >>, << <<".">> >>}
        THEN DOMAIN ret = {}
        ELSE InfoMaps(ret, lines)

\* "k=v;g=a=b;k=w" has been decoded: k has the later value and g the value a=b.
C25_Witness ==
    /\ fmt = "INFO" /\ call = "_parse_info"
    /\ lines = << <<"k", "=", "v">>, <<"g", "=", "a", "=", "b">>, <<"k", "=", "w">> >>
    /\ DOMAIN ret = { <<"k">>, <<"g">> }
    /\ ret[<<"k">>] = <<"w">>
    /\ ret[<<"g">>] = <<"a", "=", "b">>

IsPrefix(a, b) == Len(a) <= Len(b) /\ SubSeq(b, 1, Len(a)) = a
\* The sequence the iteration g yields when nothing else uses the reader
\* while it runs: read() scans from the start of a SAM file and from the
\* cursor it began at in a VCF file; filter_by_region() takes the records of
\* the whole file that lie in its region.
StandAlone(g) ==
    LET gen == gens[g]
        InSam(rec) == rec.chrom = gen.chrom /\ rec.start <= gen.hi /\ rec.end >= gen.lo
        InVcf(rec) == rec.chrom = gen.chrom /\ gen.lo <= rec.pos /\ rec.pos <= gen.hi
    IN IF gen.kind = "read"
       THEN ScanFrom(fmt, lines, IF fmt = "SAM" \/ gen.start < 0 THEN 0 ELSE gen.start)
       ELSE IF gen.lo > gen.hi THEN <<>>
       ELSE IF fmt = "SAM" THEN SelectSeq(ScanFrom("SAM", lines, 0), InSam)
       ELSE SelectSeq(ScanFrom("VCF", lines, 0), InVcf)
Iterating(g) == fmt \in {"SAM", "VCF"} /\ gens[g].kind \in {"read", "filter"}

SamTagOf(line) == Split(Strip(line), Tab)[1]
SamEntryOf(line) == Join(Tail(Split(Strip(line), Tab)), Tab)
\* How many times the text e occurs in the list es.
Occurrences(es, e) == Cardinality({i \in 1..Len(es) : es[i] = e})
\* Every header line of the SAM file is stored k times in the mapping h.
SamStoredTimes(h, ls, k) ==
    LET block == 1..HeaderBlockLen(ls)
    IN /\ DOMAIN h = IF k = 0 THEN {} ELSE {SamTagOf(ls[i]) : i \in block}
       /\ \A i \in block :
              k > 0 =>
                  Occurrences(h[SamTagOf(ls[i])], SamEntryOf(ls[i])) =
                      k * Cardinality({j \in block : /\ SamTagOf(ls[j]) = SamTagOf(ls[i])
                                                     /\ SamEntryOf(ls[j]) = SamEntryOf(ls[i])})
\* Every "##" line of the VCF file is stored k times in the list hl.
VcfStoredTimes(hl, ls, k) ==
    /\ \A i \in 1..Len(ls) :
           StartsWith(ls[i], <<"#", "#">>) =>
               Occurrences(hl, Strip(ls[i])) =
                   k * Cardinality({j \in 1..Len(ls) : Strip(ls[j]) = Strip(ls[i])})
    /\ \A e \in {hl[n] : n \in 1..Len(hl)} : \E i \in 1..Len(ls) : Strip(ls[i]) = e

\* C27: close() clears the header-parsed flag and keeps the header data, so
\* entering the scope of a SAM or VCF reader again adds the header once more:
\* after the k-th entry every header line is stored k times.
C27_HeaderGrowsOnReentry ==
    (fmt \in {"SAM", "VCF"} /\ call = "__enter__" /\ err = NoErr) =>
        IF fmt = "SAM"
        THEN SamStoredTimes(header, lines, epoch)
        ELSE VcfStoredTimes(header_lines, lines, epoch)

\* C28: when a read() of a FASTA or FASTQ reader is first advanced while the
\* reader holds no file (never entered, or closed since), it opens the file
\* again, and the reader then holds an open file until close() is called;
\* the first advance of a read() on a SAM or VCF reader that holds no open
\* file fails and opens nothing.
C28_LazyReopen ==
    [][\A g \in GenIds :
          /\ (call' = "next(read)" /\ gens[g].pc = "new" /\ gens'[g].pc # "new"
                /\ file # "open") =>
                IF fmt \in {"FASTA", "FASTQ"}
                THEN openable => (file' = "open" /\ epoch' = epoch + 1 /\ gens'[g].opened)
                ELSE file' = file /\ epoch' = epoch /\ err' \in FileErrors
          /\ (fmt \in {"FASTA", "FASTQ"} /\ file = "open" /\ file' # "open") => call' = "close"
      ]_vars

\* A FASTA or FASTQ reader was closed, a read() advanced afterwards has
\* opened the file a second time, and other calls have followed: the file is
\* still open.
C28_Witness ==
    \E g \in GenIds :
        /\ fmt \in {"FASTA", "FASTQ"}
        /\ gens[g].opened
        /\ gens[g].fobj = epoch
        /\ epoch = 2
        /\ file = "open"
        /\ gens[g].pc = "done"

\* The read() iterations suspended just after delivering a record.
FaSuspended == {g \in GenIds : gens[g].kind = "read" /\ gens[g].pc = "suspended"}
RECURSIVE FaOwed(_)
\* The bases of the records those iterations delivered last.
FaOwed(S) ==
    IF S = {} THEN 0
    ELSE LET g == CHOOSE x \in S : TRUE
         IN gens[g].owed + FaOwed(S \ {g})

\* C29 as stated: in every reachable state of a FASTA reader get_seq_score()
\* is the number of records delivered by all its read() iterations minus the
\* number of iterations now suspended just after delivering a record, and the
\* total length lags by the bases of those records.
C29_CountersLagSuspended ==
    fmt = "FASTA" =>
        /\ seq_count = tally.records - Cardinality(FaSuspended)
        /\ total_length = tally.bases - FaOwed(FaSuspended)
        /\ call = "get_seq_score" => ret = seq_count

\* C29: the FASTA counters are updated only when an iteration is advanced past
\* a record it delivered and are never reset: in every reachable state
\* get_seq_score() is the number of records delivered by all read()
\* iterations of the reader, minus the iterations now suspended just after
\* delivering a record, minus the iterations dropped while so suspended; the
\* total length lags by the bases of the same records.
C29_CountersLag ==
    fmt = "FASTA" =>
        /\ seq_count = tally.records - Cardinality(FaSuspended) - tally.lost_records
        /\ total_length = tally.bases - FaOwed(FaSuspended) - tally.lost_bases
        /\ call = "get_seq_score" => ret = seq_count

\* A consumer stopped right after the second record of its first pass asks for
\* the count and gets 1.
C29_Witness ==
    \E g \in GenIds :
        /\ FaPass(g)
        /\ gens[g].pc = "suspended"
        /\ Len(gens[g].out) = 2
        /\ tally.records = 2
        /\ call = "get_seq_score"
        /\ ret = 1

\* Two full passes over a file of two records leave the count at 4.
C29_TwoPasses ==
    \E g \in GenIds :
        /\ FaPass(g)
        /\ gens[g].pc = "done"
        /\ Len(gens[g].out) = 2
        /\ epoch = 2
        /\ tally.lost_records = 0
        /\ seq_count = 4

\* C30: FASTA read() treats a marker line with an empty identifier (">" and
\* then only whitespace) by its position: a pass that runs to the end has
\* yielded such a record, with id "", when another marker line follows it, and
\* has dropped it without an error when it is the last record of the input;
\* every other record of the file is yielded in its place.
C30_EmptyIdByPosition ==
    \A g \in GenIds :
        (FaPass(g) /\ gens[g].pc = "done") =>
            LET recs == FaExpected(lines)
                n == Len(recs)
                out == gens[g].out
            IN /\ Len(out) = IF n > 0 /\ recs[n].id = <<>> THEN n - 1 ELSE n
               /\ \A k \in 1..Len(out) : out[k] = recs[k]

\* A file of two records with empty identifiers: the pass has ended after
\* yielding the first, with id "" and its bases, and nothing for the second.
C30_Witness ==
    \E g \in GenIds :
        /\ FaPass(g)
        /\ gens[g].pc = "done"
        /\ Len(FaExpected(lines)) = 2
        /\ FaExpected(lines)[2].id = <<>>
        /\ Len(gens[g].out) = 1
        /\ gens[g].out[1].id = <<>>
        /\ gens[g].out[1].sequence # <<>>
        /\ err = NoErr

====
